---- MODULE Spec2Model ----
(***************************************************************************)
(* File organiser: the command line organiser (kuaisu = "fast" script),    *)
(* the GUI organiser (Pro script) and the simple GUI organiser (gaoxiao =  *)
(* "efficient" script), modelled over an abstract file system.             *)
(*                                                                         *)
(* A file or directory name is a sequence of characters, each character a  *)
(* one-element string.  The module language has no non-ASCII strings, so   *)
(* every CJK character of the source is written as one pinyin token:       *)
(* "tu","pian" is the two-character folder name of the image category,     *)
(* "qi","ta" the fallback category, and so on.  A path is a sequence of    *)
(* names below the parent directory of the source directory; the parent    *)
(* itself is the empty path.                                               *)
(***************************************************************************)
EXTENDS Integers, Sequences, FiniteSets, TLC

(***************************************************************************)
(* Bounds of the model.                                                    *)
(***************************************************************************)
NFiles == 3
MaxLocked == 1
MaxDotFiles == 2

\* the files of the tree at the start, and the copy the backup makes of each
FileIds == 1..NFiles
CopyIds == (NFiles + 1)..(2 * NFiles)
AllIds == FileIds \cup CopyIds
Orig(f) == IF f \in CopyIds THEN f - NFiles ELSE f

(***************************************************************************)
(* Strings as character sequences: str.lower, str.isdigit, str.split,      *)
(* str.join, str.startswith, str(int), PurePath.suffix and PurePath.stem.  *)
(***************************************************************************)
Digits == {"0", "1", "2", "3", "4", "5", "6", "7", "8", "9"}

SetMax(S) == CHOOSE m \in S : \A k \in S : k <= m
SetMin(S) == CHOOSE m \in S : \A k \in S : m <= k

LowerChar(c) ==
  CASE c = "A" -> "a" [] c = "B" -> "b" [] c = "C" -> "c" [] c = "D" -> "d"
    [] c = "E" -> "e" [] c = "F" -> "f" [] c = "G" -> "g" [] c = "H" -> "h"
    [] c = "I" -> "i" [] c = "J" -> "j" [] c = "K" -> "k" [] c = "L" -> "l"
    [] c = "M" -> "m" [] c = "N" -> "n" [] c = "O" -> "o" [] c = "P" -> "p"
    [] c = "Q" -> "q" [] c = "R" -> "r" [] c = "S" -> "s" [] c = "T" -> "t"
    [] c = "U" -> "u" [] c = "V" -> "v" [] c = "W" -> "w" [] c = "X" -> "x"
    [] c = "Y" -> "y" [] c = "Z" -> "z" [] OTHER -> c

Lower(s) == [i \in 1..Len(s) |-> LowerChar(s[i])]

IsDigit(s) == Len(s) > 0 /\ \A i \in 1..Len(s) : s[i] \in Digits

StartsWith(s, c) == Len(s) > 0 /\ s[1] = c

RECURSIVE Split(_, _)
Split(s, sep) ==
  LET I == {i \in 1..Len(s) : s[i] = sep} IN
  IF I = {} THEN <<s>>
  ELSE LET i == SetMin(I) IN
       <<SubSeq(s, 1, i - 1)>> \o Split(SubSeq(s, i + 1, Len(s)), sep)

RECURSIVE Join(_, _)
Join(parts, sep) ==
  IF Len(parts) = 0 THEN <<>>
  ELSE IF Len(parts) = 1 THEN parts[1]
  ELSE parts[1] \o <<sep>> \o Join(Tail(parts), sep)

DigitChar(d) ==
  CASE d = 0 -> "0" [] d = 1 -> "1" [] d = 2 -> "2" [] d = 3 -> "3"
    [] d = 4 -> "4" [] d = 5 -> "5" [] d = 6 -> "6" [] d = 7 -> "7"
    [] d = 8 -> "8" [] d = 9 -> "9"

RECURSIVE ToStr(_)
ToStr(n) == IF n < 10 THEN <<DigitChar(n)>>
            ELSE ToStr(n \div 10) \o <<DigitChar(n % 10)>>

\* 1-based position of the last occurrence of c in s, 0 when there is none
RFind(s, c) == LET I == {i \in 1..Len(s) : s[i] = c} IN
               IF I = {} THEN 0 ELSE SetMax(I)

\* PurePath.suffix: name[i:] when the last dot is neither first nor last
Suffix(name) == LET j == RFind(name, ".") IN
                IF 1 < j /\ j < Len(name) THEN SubSeq(name, j, Len(name))
                ELSE <<>>

\* PurePath.stem: name[:i] under the same condition, else the whole name
Stem(name) == LET j == RFind(name, ".") IN
              IF 1 < j /\ j < Len(name) THEN SubSeq(name, 1, j - 1)
              ELSE name

(***************************************************************************)
(* The category tables of the three scripts, in dictionary order, and the  *)
(* names of the folders the scripts create.                                *)
(***************************************************************************)
QITA == <<"qi", "ta">>

FILE_CATEGORIES == <<
  [category |-> <<"tu", "pian">>,
   extensions |-> <<<<".", "j", "p", "g">>, <<".", "j", "p", "e", "g">>,
        <<".", "p", "n", "g">>, <<".", "g", "i", "f">>, <<".", "b", "m", "p">>,
        <<".", "t", "i", "f", "f">>, <<".", "w", "e", "b", "p">>,
        <<".", "s", "v", "g">>>>],
  [category |-> <<"wen", "dang">>,
   extensions |-> <<<<".", "p", "d", "f">>, <<".", "d", "o", "c">>,
        <<".", "d", "o", "c", "x">>, <<".", "t", "x", "t">>,
        <<".", "x", "l", "s">>, <<".", "x", "l", "s", "x">>,
        <<".", "p", "p", "t">>, <<".", "p", "p", "t", "x">>,
        <<".", "m", "d">>>>],
  [category |-> <<"yin", "pin">>,
   extensions |-> <<<<".", "m", "p", "3">>, <<".", "w", "a", "v">>,
        <<".", "f", "l", "a", "c">>, <<".", "a", "a", "c">>,
        <<".", "m", "4", "a">>, <<".", "w", "m", "a">>>>],
  [category |-> <<"shi", "pin">>,
   extensions |-> <<<<".", "m", "p", "4">>, <<".", "a", "v", "i">>,
        <<".", "m", "k", "v">>, <<".", "m", "o", "v">>, <<".", "w", "m", "v">>,
        <<".", "f", "l", "v">>, <<".", "m", "4", "v">>>>],
  [category |-> <<"ya", "suo", "bao">>,
   extensions |-> <<<<".", "z", "i", "p">>, <<".", "r", "a", "r">>,
        <<".", "7", "z">>, <<".", "t", "a", "r">>, <<".", "g", "z">>,
        <<".", "b", "z", "2">>>>],
  [category |-> <<"cheng", "xu">>,
   extensions |-> <<<<".", "p", "y">>, <<".", "j", "s">>,
        <<".", "j", "a", "v", "a">>, <<".", "c", "p", "p">>, <<".", "c">>,
        <<".", "h", "t", "m", "l">>, <<".", "c", "s", "s">>,
        <<".", "p", "h", "p">>, <<".", "j", "s", "o", "n">>,
        <<".", "e", "x", "e">>>>],
  [category |-> <<"an1", "zhuang", "bao">>,
   extensions |-> <<<<".", "m", "s", "i">>, <<".", "d", "m", "g">>,
        <<".", "p", "k", "g">>, <<".", "d", "e", "b">>,
        <<".", "r", "p", "m">>>>],
  [category |-> <<"zi", "ti">>,
   extensions |-> <<<<".", "t", "t", "f">>, <<".", "o", "t", "f">>,
        <<".", "w", "o", "f", "f">>, <<".", "w", "o", "f", "f", "2">>>>],
  [category |-> <<"qi", "ta">>,
   extensions |-> <<>>]
>>

Pro_FILE_CATEGORIES == <<
  [category |-> <<"tu", "pian">>,
   extensions |-> <<<<".", "j", "p", "g">>, <<".", "j", "p", "e", "g">>,
        <<".", "p", "n", "g">>, <<".", "g", "i", "f">>, <<".", "b", "m", "p">>,
        <<".", "t", "i", "f", "f">>, <<".", "w", "e", "b", "p">>,
        <<".", "s", "v", "g">>, <<".", "i", "c", "o">>>>],
  [category |-> <<"wen", "dang">>,
   extensions |-> <<<<".", "p", "d", "f">>, <<".", "d", "o", "c">>,
        <<".", "d", "o", "c", "x">>, <<".", "t", "x", "t">>,
        <<".", "x", "l", "s">>, <<".", "x", "l", "s", "x">>,
        <<".", "p", "p", "t">>, <<".", "p", "p", "t", "x">>, <<".", "m", "d">>,
        <<".", "r", "t", "f">>>>],
  [category |-> <<"yin", "pin">>,
   extensions |-> <<<<".", "m", "p", "3">>, <<".", "w", "a", "v">>,
        <<".", "f", "l", "a", "c">>, <<".", "a", "a", "c">>,
        <<".", "m", "4", "a">>, <<".", "w", "m", "a">>,
        <<".", "o", "g", "g">>>>],
  [category |-> <<"shi", "pin">>,
   extensions |-> <<<<".", "m", "p", "4">>, <<".", "a", "v", "i">>,
        <<".", "m", "k", "v">>, <<".", "m", "o", "v">>, <<".", "w", "m", "v">>,
        <<".", "f", "l", "v">>, <<".", "m", "4", "v">>,
        <<".", "w", "e", "b", "m">>>>],
  [category |-> <<"ya", "suo", "bao">>,
   extensions |-> <<<<".", "z", "i", "p">>, <<".", "r", "a", "r">>,
        <<".", "7", "z">>, <<".", "t", "a", "r">>, <<".", "g", "z">>,
        <<".", "b", "z", "2">>, <<".", "x", "z">>>>],
  [category |-> <<"cheng", "xu", "dai", "ma">>,
   extensions |-> <<<<".", "p", "y">>, <<".", "j", "s">>,
        <<".", "j", "a", "v", "a">>, <<".", "c", "p", "p">>, <<".", "c">>,
        <<".", "h">>, <<".", "h", "t", "m", "l">>, <<".", "c", "s", "s">>,
        <<".", "p", "h", "p">>, <<".", "j", "s", "o", "n">>,
        <<".", "x", "m", "l">>, <<".", "y", "m", "l">>>>],
  [category |-> <<"an1", "zhuang", "bao">>,
   extensions |-> <<<<".", "m", "s", "i">>, <<".", "d", "m", "g">>,
        <<".", "p", "k", "g">>, <<".", "d", "e", "b">>, <<".", "r", "p", "m">>,
        <<".", "a", "p", "k">>>>],
  [category |-> <<"zi", "ti">>,
   extensions |-> <<<<".", "t", "t", "f">>, <<".", "o", "t", "f">>,
        <<".", "w", "o", "f", "f">>, <<".", "w", "o", "f", "f", "2">>,
        <<".", "e", "o", "t">>>>],
  [category |-> <<"dian", "zi3", "shu">>,
   extensions |-> <<<<".", "e", "p", "u", "b">>, <<".", "m", "o", "b", "i">>,
        <<".", "a", "z", "w", "3">>>>],
  [category |-> <<"she", "ji", "wen", "jian">>,
   extensions |-> <<<<".", "p", "s", "d">>, <<".", "a", "i">>,
        <<".", "s", "k", "e", "t", "c", "h">>, <<".", "f", "i", "g">>,
        <<".", "x", "d">>>>],
  [category |-> <<"e", "x", "e", "cheng", "xu">>,
   extensions |-> <<<<".", "e", "x", "e">>>>],
  [category |-> <<"qi", "ta">>,
   extensions |-> <<>>]
>>

Simple_categories == <<
  [category |-> <<"tu", "pian">>,
   extensions |-> <<<<".", "j", "p", "g">>, <<".", "j", "p", "e", "g">>,
        <<".", "p", "n", "g">>, <<".", "g", "i", "f">>,
        <<".", "b", "m", "p">>>>],
  [category |-> <<"wen", "dang">>,
   extensions |-> <<<<".", "p", "d", "f">>, <<".", "d", "o", "c">>,
        <<".", "d", "o", "c", "x">>, <<".", "t", "x", "t">>,
        <<".", "x", "l", "s">>, <<".", "x", "l", "s", "x">>>>],
  [category |-> <<"yin", "pin">>,
   extensions |-> <<<<".", "m", "p", "3">>, <<".", "w", "a", "v">>>>],
  [category |-> <<"shi", "pin">>,
   extensions |-> <<<<".", "m", "p", "4">>, <<".", "a", "v", "i">>,
        <<".", "m", "k", "v">>>>],
  [category |-> <<"qi", "ta">>,
   extensions |-> <<>>]
>>


\* first category of the table, from index i on, whose list holds ext
RECURSIVE CategoryIn(_, _, _)
CategoryIn(table, ext, i) ==
  IF i > Len(table) THEN QITA
  ELSE IF \E k \in 1..Len(table[i].extensions) : table[i].extensions[k] = ext
       THEN table[i].category
       ELSE CategoryIn(table, ext, i + 1)

\* variant: the extension is looked up as it is written
get_file_categoryCaseSensitive(file_extension) ==
  CategoryIn(FILE_CATEGORIES, file_extension, 1)

get_file_category(file_extension) ==
  CategoryIn(FILE_CATEGORIES, Lower(file_extension), 1)

Pro_get_file_category(extension) ==
  CategoryIn(Pro_FILE_CATEGORIES, Lower(extension), 1)

(***************************************************************************)
(* Names and paths of the model.  SRC is the source directory, a child of  *)
(* the parent directory (the empty path); with source_dir "." it is the    *)
(* working directory.                                                      *)
(***************************************************************************)
SRC == <<"S">>
SUB == <<"s", "u", "b">>
TUPIAN == <<"tu", "pian">>
ANRIQI == <<"an4", "ri", "qi", "zheng", "li">>
YIZHENGLI == <<"yi", "zheng", "li">>
BACKUP == <<"b", "a", "c", "k", "u", "p", "_", "t", "s">>

A_JPG == <<"a", ".", "j", "p", "g">>
A_1_JPG == <<"a", "_", "1", ".", "j", "p", "g">>
B_U == <<"b", ".", "u">>
DOT_H == <<".", "h">>

source_path == <<SRC>>
NoPath == <<>>

\* the places a file can be at when a run starts
Slots == <<
  <<SRC, A_JPG>>, <<SRC, A_1_JPG>>, <<SRC, B_U>>, <<SRC, DOT_H>>,
  <<SRC, QITA>>,
  <<SRC, SUB, A_JPG>>,
  <<SRC, TUPIAN, A_JPG>>
>>

\* "%Y-%m" of a modification time, for the two months of the model
DateFolder(m) == <<"2", "0", "2", "4", "-", "0">> \o ToStr(m)

VARIABLES
  prog,             \* which script runs: "cli", "pro" or "simple"
  source_dir,       \* the source directory as given: "." or a named one
  organize_by,      \* organize_by / org_mode / org_type
  dry_run,          \* dry_run option
  create_backup,    \* create_backup option
  rescan,           \* the running pathlib lists subdirectories a second time
  dest_path,        \* Pro: dest_dir
  loc,              \* file system: path of every regular file, or NoPath
  dirs,             \* file system: the directories
  mtime,            \* st_mtime of every file, as a month
  size,             \* st_size of every file
  locked,           \* files the operating system refuses to move
  pc,               \* position of the running script
  walk,             \* frames of the rglob generator
  stats,            \* stats dictionary of organize_files
  files_to_process, \* Pro: the scan result
  file_count,       \* Pro: file_count of _scan_directory_thread
  idx,              \* Pro: index of the for loop of _organize_thread
  processed,        \* Pro: processed; simple: count
  thread_running,   \* Pro: thread_running
  backup_tree,      \* the backup copy: "none", "failed" or the copied paths
  loc0,             \* history: loc when the run started
  dirs0,            \* history: dirs when the run started
  last,             \* history: what the last per-file step did
  dup_method,       \* Pro: dup_method, "name_size" or "content"
  content,          \* the MD5 digest of every file's content
  unreadable,       \* files that open() refuses to read
  cleanup_preview,  \* Pro: cleanup_preview
  rename_pattern,   \* Pro: rename_pattern
  posix,            \* the operating system is a POSIX one (not Windows)
  fn_call,          \* the function called on its own and its argument
  fn_ret,           \* what that call returned
  file_dict,        \* duplicate search: file_dict / file_hashes
  duplicates,       \* duplicate search: duplicates
  visited,          \* history: the files of the search in the order yielded
  todo,             \* os.walk(topdown=False): the frames of the generator
  empty_folders,    \* cleanup: empty_folders
  ren,              \* Pro: the worker thread of batch_rename
  presses,          \* the button events handled after the first one (Pro),
                    \* the runs started after the first one (command line)
  workers,          \* Pro: the _organize_thread threads that are alive
  scans             \* Pro: the _scan_directory_thread threads

\* the options, the file attributes and the history of the start: no step
\* of a run changes them
config == <<prog, source_dir, organize_by, dry_run, create_backup, rescan, dest_path,
            mtime, size, locked, loc0, dirs0,
            dup_method, content, unreadable, cleanup_preview, rename_pattern,
            posix>>

\* the state of the operations other than organize
fn_state == <<fn_call, fn_ret>>
dup_state == <<file_dict, duplicates, visited>>
cleanup_state == <<todo, empty_folders>>
button_state == <<presses, workers, scans>>
tools == <<fn_state, dup_state, cleanup_state, ren, button_state>>

vars == <<config, tools, loc, dirs, pc, walk, stats, files_to_process, file_count,
          idx, processed, thread_running, backup_tree, last>>

(***************************************************************************)
(* The file system: Path.is_file, Path.is_dir, Path.exists, os.scandir,    *)
(* Path.mkdir and shutil.move.                                             *)
(***************************************************************************)
IsFile(p) == p # NoPath /\ \E f \in AllIds : loc[f] = p
IsDir(p) == p \in dirs
Exists(p) == IsFile(p) \/ IsDir(p)
FileAt(p) == CHOOSE f \in AllIds : loc[f] = p

Parent(p) == SubSeq(p, 1, Len(p) - 1)
Basename(p) == p[Len(p)]
Prefixes(p) == {SubSeq(p, 1, k) : k \in 0..Len(p)}

AllPaths == {loc[f] : f \in AllIds} \cup dirs

\* names listed by os.scandir(d)
Entries(d) == {Basename(p) : p \in {q \in AllPaths : q # NoPath /\ Parent(q) = d}}
\* the entries of d that are directories
SubdirEntries(d) == {n \in Entries(d) : IsDir(Append(d, n))}

\* Path.mkdir(parents=True, exist_ok=True): raises when the path or one of
\* its ancestors is a regular file
MkdirParentsOk(t) == \A q \in Prefixes(t) : ~IsFile(q)
MkdirParents(t) == dirs \cup Prefixes(t)

\* Path.mkdir(exist_ok=True): raises when the parent is no directory or the
\* path is a regular file
MkdirOk(t) == IsDir(Parent(t)) /\ ~IsFile(t)

\* shutil.move(src, dst) when ds are the directories: the real destination,
\* whether the call returns, and the files after it.  os.rename replaces a
\* regular file at the destination; a failing call leaves the file system
\* as it was.
MoveDst(ds, src, dst) == IF dst \in ds THEN Append(dst, Basename(src)) ELSE dst
MoveOk(ds, src, dst) ==
  /\ IsFile(src)
  /\ FileAt(src) \notin locked
  /\ Parent(MoveDst(ds, src, dst)) \in ds
  /\ MoveDst(ds, src, dst) \notin ds
  /\ dst \in ds => ~IsFile(MoveDst(ds, src, dst))
MoveLoc(ds, src, dst) ==
  [f \in AllIds |->
     IF loc[f] = src THEN MoveDst(ds, src, dst)
     ELSE IF loc[f] = MoveDst(ds, src, dst) THEN NoPath
     ELSE loc[f]]

(***************************************************************************)
(* Initial states: the tree the script is started on and its options.      *)
(***************************************************************************)
\* k files at pairwise distinct places, file f before file g for f < g
Placements(k) ==
  {s \in [1..k -> 1..Len(Slots)] : \A f, g \in 1..k : f < g => s[f] < s[g]}

TreeOf(s) == [f \in FileIds |-> IF f \in DOMAIN s THEN Slots[s[f]] ELSE NoPath]
DirsOf(l) ==
  {NoPath} \cup
  UNION {Prefixes(Parent(l[f])) : f \in {g \in FileIds : l[g] # NoPath}}

\* the source directory is missing, or is itself a regular file
MissingTree == [f \in FileIds |-> NoPath]
FileTree == [f \in FileIds |-> IF f = 1 THEN source_path ELSE NoPath]

\* a named source directory holds NFiles files, or is missing, or is a file
InitialTrees ==
  {TreeOf(s) : s \in Placements(NFiles)} \cup {MissingTree, FileTree}
\* the working directory holds MaxDotFiles files
DotTrees ==
  {TreeOf(s) : s \in Placements(IF MaxDotFiles < NFiles THEN MaxDotFiles
                                 ELSE NFiles)}

\* shutil.copytree(source_path, backup_path), backup_path being
\* source_path.parent / "backup_<timestamp>": Path('.').parent is Path('.'),
\* so for source_dir "." the backup lies in the source directory itself
BackupPath == IF source_dir = "." THEN Append(source_path, BACKUP)
              ELSE <<BACKUP>>
UnderSource(p) == Len(p) >= 1 /\ p[1] = SRC
InBackup(p) == BackupPath \o SubSeq(p, 2, Len(p))
CopytreeLoc ==
  [f \in AllIds |->
     IF f \in CopyIds /\ UnderSource(loc[Orig(f)])
     THEN InBackup(loc[Orig(f)]) ELSE loc[f]]
CopytreeDirs == dirs \cup {InBackup(d) : d \in {e \in dirs : UnderSource(e)}}
Copied == [state |-> "copied",
           files |-> {loc[f] : f \in {g \in FileIds : UnderSource(loc[g])}}]
BackupFailed == [state |-> "failed", files |-> {}]

AsTree(t) == [f \in AllIds |-> IF f \in FileIds THEN t[f] ELSE NoPath]

MtimeProfiles == {[f \in FileIds |-> 1 + (f % 2)]}
SizeSamples == <<1048575, 1048576, 10485760, 104857600>>
SizeProfiles == {[f \in FileIds |-> SizeSamples[1 + (f % 4)]]}
LockedSets == {L \in SUBSET FileIds : Cardinality(L) <= MaxLocked}

CategoryNames(table) == {table[i].category : i \in 1..Len(table)}
\* stats of organize_files; a category that is no key of the dictionary
\* counts 0
NoStats == [total |-> 0, moved |-> 0, skipped |-> 0,
            categories |-> [c \in CategoryNames(FILE_CATEGORIES) |-> 0]]
NoBackup == [state |-> "none", files |-> {}]
NoLast == [n |-> 0, file |-> 0, src |-> NoPath, dst |-> NoPath,
           dstExisted |-> FALSE, outcome |-> "none"]

InitTree ==
  /\ loc \in {AsTree(t) : t \in IF source_dir = "." THEN DotTrees
                                  ELSE InitialTrees}
  /\ dirs = DirsOf(loc)
  /\ loc0 = loc
  /\ dirs0 = dirs
  /\ mtime \in IF organize_by = "date" THEN MtimeProfiles
               ELSE {[f \in FileIds |-> 1]}
  \* refused moves are explored for a named source directory, outside dry
  \* run (a dry run moves nothing)
  /\ locked \in IF dry_run \/ source_dir = "." THEN {{}} ELSE LockedSets
  /\ walk = <<>>
  /\ stats = NoStats
  /\ size \in IF organize_by = "size" THEN SizeProfiles
              ELSE {[f \in FileIds |-> 10]}
  /\ files_to_process = <<>>
  /\ file_count = 0
  /\ idx = 0
  /\ processed = 0
  /\ thread_running = FALSE
  /\ backup_tree = NoBackup
  /\ last = NoLast

\* the options of the other operations as the Pro window starts with them
\* (lines 252, 265, 276), and nothing of those operations under way
NoCall == [fn |-> "none", arg |-> <<>>]
NoRen == [state |-> "idle", i |-> 0]
NoTools ==
  /\ dup_method = "name_size"
  /\ content = [f \in FileIds |-> 1]
  /\ unreadable = {}
  /\ cleanup_preview = TRUE
  /\ rename_pattern = "counter"
  /\ posix = TRUE
  /\ fn_call = NoCall
  /\ fn_ret = <<>>
  /\ file_dict = <<>>
  /\ duplicates = <<>>
  /\ visited = <<>>
  /\ todo = <<>>
  /\ empty_folders = <<>>
  /\ ren = NoRen
  /\ presses = 0
  /\ workers = 0
  /\ scans = <<>>

InitCli ==
  /\ prog = "cli"
  /\ source_dir \in {".", "S"}
  /\ organize_by \in {"type", "date"}
  /\ dry_run \in BOOLEAN
  /\ create_backup \in BOOLEAN
  /\ rescan \in BOOLEAN
  /\ dest_path = source_path
  /\ pc = "cli_start"
  /\ InitTree
  /\ NoTools

(***************************************************************************)
(* Path.rglob('*'): a lazy generator.  A frame lists the entries of its    *)
(* directory when it is reached, yields them one by one in the order the   *)
(* operating system returned them (any order), then descends into the      *)
(* subdirectories.  CPython up to 3.12 lists the directory a second time   *)
(* to find the subdirectories, after the consumer has handled the entries  *)
(* (rescan); later versions take them from the first listing.              *)
(***************************************************************************)
Frame(d) == [dir |-> d, phase |-> "list", pending |-> {}, subs |-> {}]
Top == walk[Len(walk)]
SetTop(fr) == [walk EXCEPT ![Len(walk)] = fr]
WalkingPc == {"cli_walk", "pro_scan", "dup_walk"}

\* the generator lists the directory of the frame it has just entered
WalkList ==
  /\ pc \in WalkingPc
  /\ Len(walk) > 0
  /\ Top.phase = "list"
  /\ IsDir(Top.dir)
  /\ walk' = SetTop([Top EXCEPT !.phase = "children",
                                !.pending = Entries(Top.dir),
                                !.subs = SubdirEntries(Top.dir)])
  /\ UNCHANGED <<config, tools, loc, dirs, pc, stats, files_to_process, file_count, idx,
                  processed, thread_running, backup_tree, last>>

\* every entry was yielded: the generator turns to the subdirectories
WalkDescend ==
  /\ pc \in WalkingPc
  /\ Len(walk) > 0
  /\ Top.phase = "children"
  /\ Top.pending = {}
  /\ walk' = SetTop([Top EXCEPT !.phase = "subdirs",
                                !.pending = IF rescan
                                            THEN SubdirEntries(Top.dir)
                                            ELSE Top.subs])
  /\ UNCHANGED <<config, tools, loc, dirs, pc, stats, files_to_process, file_count, idx,
                  processed, thread_running, backup_tree, last>>

\* the generator enters one of the subdirectories
WalkEnter ==
  /\ pc \in WalkingPc
  /\ Len(walk) > 0
  /\ Top.phase = "subdirs"
  /\ \E d \in Top.pending :
       walk' = Append(SetTop([Top EXCEPT !.pending = @ \ {d}]),
                      Frame(Append(Top.dir, d)))
  /\ UNCHANGED <<config, tools, loc, dirs, pc, stats, files_to_process, file_count, idx,
                  processed, thread_running, backup_tree, last>>

\* a directory is finished: back to its parent's frame
WalkLeave ==
  /\ pc \in WalkingPc
  /\ Len(walk) > 1
  /\ Top.phase = "subdirs"
  /\ Top.pending = {}
  /\ walk' = SubSeq(walk, 1, Len(walk) - 1)
  /\ UNCHANGED <<config, tools, loc, dirs, pc, stats, files_to_process, file_count, idx,
                  processed, thread_running, backup_tree, last>>

\* the generator is exhausted
WalkExhausted ==
  /\ Len(walk) = 1
  /\ Top.phase = "subdirs"
  /\ Top.pending = {}

(***************************************************************************)
(* The collision loop shared by organize_files and _organize_thread.       *)
(***************************************************************************)
RECURSIVE ResolveLoop(_, _, _, _)
ResolveLoop(target_dir, item_name, target_file, counter) ==
  IF ~Exists(target_file) THEN target_file
  ELSE LET name_parts == Split(Stem(item_name), "_")
           base_name ==
             IF Len(name_parts) > 1 /\ IsDigit(name_parts[Len(name_parts)])
             THEN Join(SubSeq(name_parts, 1, Len(name_parts) - 1), "_")
             ELSE Stem(item_name)
           new_name == base_name \o <<"_">> \o ToStr(counter) \o Suffix(item_name)
       IN ResolveLoop(target_dir, item_name, Append(target_dir, new_name),
                      counter + 1)

\* variants of the collision loop: no existence check at all, a single
\* probe instead of the loop, and a loop that keeps the numeric suffix
ResolveTargetNoCheck(target_dir, item_name) == Append(target_dir, item_name)

ResolveTargetOnce(target_dir, item_name) ==
  IF ~Exists(Append(target_dir, item_name)) THEN Append(target_dir, item_name)
  ELSE LET name_parts == Split(Stem(item_name), "_")
           base_name ==
             IF Len(name_parts) > 1 /\ IsDigit(name_parts[Len(name_parts)])
             THEN Join(SubSeq(name_parts, 1, Len(name_parts) - 1), "_")
             ELSE Stem(item_name)
       IN Append(target_dir,
                 base_name \o <<"_">> \o ToStr(1) \o Suffix(item_name))

RECURSIVE NoStripLoop(_, _, _, _)
NoStripLoop(target_dir, item_name, target_file, counter) ==
  IF ~Exists(target_file) THEN target_file
  ELSE NoStripLoop(target_dir, item_name,
                   Append(target_dir,
                          Stem(item_name) \o <<"_">> \o ToStr(counter)
                            \o Suffix(item_name)),
                   counter + 1)

ResolveTargetNoStrip(target_dir, item_name) ==
  NoStripLoop(target_dir, item_name, Append(target_dir, item_name), 1)

ResolveTarget(target_dir, item_name) ==
  ResolveLoop(target_dir, item_name, Append(target_dir, item_name), 1)

(***************************************************************************)
(* organize_files of the command line script.                              *)
(***************************************************************************)
Hidden(name) == StartsWith(name, ".") \/ StartsWith(name, "~")

CliTargetDir(f, name) ==
  IF organize_by = "date"
  THEN source_path \o <<ANRIQI, DateFolder(mtime[Orig(f)])>>
  ELSE Append(source_path, get_file_category(Suffix(name)))

Step(f, src, dst, existed, outcome) ==
  [n |-> last.n + 1, file |-> f, src |-> src, dst |-> dst,
   dstExisted |-> existed, outcome |-> outcome]

\* variant: the is_dir test is missing
CliSourceOkNoDirCheck == Exists(source_path)

\* lines 46 and 50: the source directory must exist and be a directory
CliSourceOk == Exists(source_path) /\ IsDir(source_path)

\* variants: dry_run is not consulted, or consulted the wrong way round
CliBackupCopiesAlways == create_backup
CliBackupCopiesInverted == create_backup /\ dry_run

\* lines 56 and 60: the backup copy is made
CliBackupCopies == create_backup /\ ~dry_run

\* variant: the failed move is counted as moved as well
OnMoveErrorCountsMoved(s) == [s EXCEPT !.skipped = @ + 1, !.moved = @ + 1]

\* lines 130-132: the handler of a failed move
OnMoveError(s) == [s EXCEPT !.skipped = @ + 1]

\* lines 44-52: without a source directory the function returns at once
CliCheck ==
  /\ pc = "cli_start"
  /\ pc' = IF ~CliSourceOk THEN "cli_returned_none" ELSE "cli_backup"
  /\ UNCHANGED <<config, tools, loc, dirs, walk, stats, files_to_process, file_count, idx,
                  processed, thread_running, backup_tree, last>>

\* lines 54-77: the backup copy, the empty statistics, the generator.
\* copytree either copies the tree or raises; nothing catches the exception
CliBackup ==
  /\ pc = "cli_backup"
  /\ IF CliBackupCopies
     THEN \/ /\ backup_tree' = Copied
             /\ loc' = CopytreeLoc
             /\ dirs' = CopytreeDirs
             /\ pc' = "cli_walk"
             /\ walk' = <<Frame(source_path)>>
          \/ /\ backup_tree' = BackupFailed
             /\ pc' = "cli_raised"
             /\ UNCHANGED <<loc, dirs, walk>>
     ELSE /\ pc' = "cli_walk"
          /\ walk' = <<Frame(source_path)>>
          /\ UNCHANGED <<loc, dirs, backup_tree>>
  /\ stats' = NoStats
  /\ UNCHANGED <<config, tools, files_to_process, file_count, idx, processed,
                  thread_running, last>>

\* lines 77-132: one iteration of the for loop, for the item the generator
\* yields next
CliVisit ==
  /\ pc = "cli_walk"
  /\ Len(walk) > 0
  /\ Top.phase = "children"
  /\ \E n \in Top.pending :
       LET item == Append(Top.dir, n)
           f == FileAt(item)
           target_dir == CliTargetDir(f, n)
           target_file == ResolveTarget(target_dir, n)
           made == MkdirParents(target_dir)
           real_dst == MoveDst(made, item, target_file)
           counted == [stats EXCEPT !.total = @ + 1]
           classified ==
             IF organize_by = "date" THEN counted
             ELSE [counted EXCEPT
                     !.categories[get_file_category(Suffix(n))] = @ + 1]
       IN
       /\ walk' = SetTop([Top EXCEPT !.pending = @ \ {n}])
       /\ IF ~IsFile(item)
          THEN UNCHANGED <<pc, stats, loc, dirs, last>>
          ELSE IF Hidden(n)
          THEN /\ stats' = counted
               /\ last' = Step(f, item, NoPath, FALSE, "hidden")
               /\ UNCHANGED <<pc, loc, dirs>>
          ELSE IF dry_run
          THEN /\ stats' = [classified EXCEPT !.moved = @ + 1]
               /\ last' = Step(f, item, target_file, FALSE, "dry")
               /\ UNCHANGED <<pc, loc, dirs>>
          ELSE IF ~MkdirParentsOk(target_dir)
          THEN /\ pc' = "cli_raised"
               /\ stats' = classified
               /\ last' = Step(f, item, NoPath, FALSE, "mkdir_raised")
               /\ UNCHANGED <<loc, dirs>>
          ELSE IF MoveOk(made, item, target_file)
          THEN /\ dirs' = made
               /\ loc' = MoveLoc(made, item, target_file)
               /\ stats' = [classified EXCEPT !.moved = @ + 1]
               /\ last' = Step(f, item, real_dst, Exists(real_dst), "moved")
               /\ pc' = pc
          ELSE /\ dirs' = made
               /\ stats' = OnMoveError(classified)
               /\ last' = Step(f, item, target_file, FALSE, "failed")
               /\ UNCHANGED <<pc, loc>>
  /\ UNCHANGED <<config, tools, files_to_process, file_count, idx, processed, thread_running,
                  backup_tree>>

\* lines 134-149: the summary is printed and stats returned
CliFinish ==
  /\ pc = "cli_walk"
  /\ WalkExhausted
  /\ pc' = "cli_returned_stats"
  /\ walk' = <<>>
  /\ UNCHANGED <<config, tools, loc, dirs, stats, files_to_process, file_count, idx, processed,
                  thread_running, backup_tree, last>>

(***************************************************************************)
(* The Pro script: scan_directory and _scan_directory_thread fill          *)
(* files_to_process, start_organize and _organize_thread move the files.   *)
(***************************************************************************)
max_files == 1000

XIAOYU_1MB == <<"xiao", "yu", "1", "M", "B">>
MB1_10 == <<"1", "M", "B", "-", "1", "0", "M", "B">>
MB10_100 == <<"1", "0", "M", "B", "-", "1", "0", "0", "M", "B">>
DAYU_100MB == <<"da", "yu", "1", "0", "0", "M", "B">>

\* variant: every threshold belongs to the bucket below it
SizeFolderInclusive(s) ==
  IF s <= 1024 * 1024 THEN XIAOYU_1MB
  ELSE IF s <= 1024 * 1024 * 10 THEN MB1_10
  ELSE IF s <= 1024 * 1024 * 100 THEN MB10_100
  ELSE DAYU_100MB

\* lines 532-540
SizeFolder(s) ==
  IF s < 1024 * 1024 THEN XIAOYU_1MB
  ELSE IF s < 1024 * 1024 * 10 THEN MB1_10
  ELSE IF s < 1024 * 1024 * 100 THEN MB10_100
  ELSE DAYU_100MB

InitPro ==
  /\ prog = "pro"
  /\ source_dir = "S"
  /\ organize_by \in {"type", "date", "size"}
  /\ dry_run \in BOOLEAN
  /\ create_backup \in BOOLEAN
  /\ rescan = TRUE
  /\ dest_path \in {source_path, <<SRC, YIZHENGLI>>}
  /\ pc = "pro_idle"
  /\ InitTree
  /\ NoTools

\* lines 361-377: scan_directory
ProScanDirectory ==
  /\ pc = "pro_idle"
  /\ IF ~Exists(source_path)
     THEN /\ pc' = "pro_no_source"
          /\ UNCHANGED <<walk, files_to_process, file_count>>
     ELSE /\ files_to_process' = <<>>
          /\ file_count' = 0
          /\ walk' = <<Frame(source_path)>>
          /\ pc' = "pro_scan"
  /\ UNCHANGED <<config, tools, loc, dirs, stats, idx, processed, thread_running,
                 backup_tree, last>>

\* lines 386-407: one item of the scan
ProScanVisit ==
  /\ pc = "pro_scan"
  /\ Len(walk) > 0
  /\ Top.phase = "children"
  /\ \E n \in Top.pending :
       LET item == Append(Top.dir, n) IN
       IF ~IsFile(item)
       THEN /\ walk' = SetTop([Top EXCEPT !.pending = @ \ {n}])
            /\ UNCHANGED <<files_to_process, file_count>>
       ELSE IF file_count >= max_files
       THEN /\ walk' = <<[Top EXCEPT !.phase = "subdirs", !.pending = {}]>>
            /\ UNCHANGED <<files_to_process, file_count>>
       ELSE /\ walk' = SetTop([Top EXCEPT !.pending = @ \ {n}])
            /\ files_to_process' =
                 Append(files_to_process,
                        [path |-> item, name |-> n,
                         category |-> Pro_get_file_category(Suffix(n))])
            /\ file_count' = file_count + 1
  /\ UNCHANGED <<config, tools, loc, dirs, pc, stats, idx, processed,
                 thread_running, backup_tree, last>>

\* lines 409-418: the scan ends, by exhaustion or by the exception scandir
\* raises on a source path that is no directory
ProScanFinish ==
  /\ pc = "pro_scan"
  /\ \/ WalkExhausted
     \/ Len(walk) > 0 /\ Top.phase = "list" /\ ~IsDir(Top.dir)
  /\ walk' = <<>>
  /\ pc' = "pro_ready"
  /\ UNCHANGED <<config, tools, loc, dirs, stats, files_to_process, file_count,
                 idx, processed, thread_running, backup_tree, last>>

\* variant: the busy flag is not looked at
StartRefusedNoBusyCheck == files_to_process = <<>>

\* lines 492-498: the two tests of start_organize
StartRefused == files_to_process = <<>> \/ thread_running

\* lines 490-502: start_organize
ProStartOrganize ==
  /\ pc = "pro_ready"
  /\ IF StartRefused
     THEN /\ pc' = "pro_refused"
          /\ UNCHANGED <<thread_running, workers>>
     ELSE /\ thread_running' = TRUE
          /\ workers' = workers + 1
          /\ pc' = "pro_prelude"
  /\ UNCHANGED <<config, fn_state, dup_state, cleanup_state, ren, presses,
                 scans, loc, dirs, walk, stats, files_to_process, file_count,
                 idx, processed, backup_tree, last>>

\* lines 506-521: destination directory, backup copy, counters.  An
\* exception of mkdir or copytree is caught by the outer handler
ProPrelude ==
  /\ pc = "pro_prelude"
  /\ IF ~dry_run /\ ~MkdirParentsOk(dest_path)
     THEN /\ pc' = "pro_exit"
          /\ UNCHANGED <<loc, dirs, backup_tree, idx, processed>>
     ELSE IF create_backup /\ ~dry_run
     THEN \/ /\ backup_tree' = Copied
             /\ loc' = CopytreeLoc
             /\ dirs' = CopytreeDirs \cup MkdirParents(dest_path)
                          \cup {InBackup(d) :
                                  d \in {e \in Prefixes(dest_path) :
                                           UnderSource(e)}}
             /\ idx' = 1
             /\ processed' = 0
             /\ pc' = "pro_loop"
          \/ /\ backup_tree' = BackupFailed
             /\ dirs' = MkdirParents(dest_path)
             /\ pc' = "pro_exit"
             /\ UNCHANGED <<loc, idx, processed>>
     ELSE /\ dirs' = IF dry_run THEN dirs ELSE MkdirParents(dest_path)
          /\ idx' = 1
          /\ processed' = 0
          /\ pc' = "pro_loop"
          /\ UNCHANGED <<loc, backup_tree>>
  /\ UNCHANGED <<config, tools, walk, stats, files_to_process, file_count,
                 thread_running, last>>

ProTargetDir(file_info) ==
  IF organize_by = "date"
  THEN Append(dest_path, DateFolder(mtime[Orig(FileAt(file_info.path))]))
  ELSE IF organize_by = "size"
  THEN Append(dest_path, SizeFolder(size[Orig(FileAt(file_info.path))]))
  ELSE Append(dest_path, file_info.category)

\* lines 523-577: one iteration of the for loop; the handler of line 576
\* catches what stat, mkdir or move raise
ProVisit ==
  /\ pc = "pro_loop"
  /\ idx <= Len(files_to_process)
  /\ LET file_info == files_to_process[idx]
         item == file_info.path
         f == FileAt(item)
         target_dir == ProTargetDir(file_info)
         target_file == ResolveTarget(target_dir, Basename(item))
         made == MkdirParents(target_dir)
         real_dst == MoveDst(made, item, target_file)
     IN
     IF organize_by \in {"date", "size"} /\ ~IsFile(item)
     THEN /\ last' = Step(0, item, NoPath, FALSE, "stat_raised")
          /\ UNCHANGED <<loc, dirs, processed>>
     ELSE IF dry_run
     THEN /\ processed' = processed + 1
          /\ last' = Step(0, item, Append(target_dir, Basename(item)),
                          FALSE, "dry")
          /\ UNCHANGED <<loc, dirs>>
     ELSE IF ~MkdirParentsOk(target_dir)
     THEN /\ last' = Step(0, item, NoPath, FALSE, "mkdir_raised")
          /\ UNCHANGED <<loc, dirs, processed>>
     ELSE IF MoveOk(made, item, target_file)
     THEN /\ dirs' = made
          /\ loc' = MoveLoc(made, item, target_file)
          /\ processed' = processed + 1
          /\ last' = Step(f, item, real_dst, Exists(real_dst), "moved")
     ELSE /\ dirs' = made
          /\ last' = Step(0, item, target_file, FALSE, "failed")
          /\ UNCHANGED <<loc, processed>>
  /\ idx' = idx + 1
  /\ UNCHANGED <<config, tools, pc, walk, stats, files_to_process, file_count,
                 thread_running, backup_tree>>

\* lines 579-580: the loop is over
ProLoopEnd ==
  /\ pc = "pro_loop"
  /\ idx > Len(files_to_process)
  /\ pc' = "pro_exit"
  /\ UNCHANGED <<config, tools, loc, dirs, walk, stats, files_to_process,
                 file_count, idx, processed, thread_running, backup_tree,
                 last>>

\* variant: the worker ends without the finally clause
ProFinallyKeepsBusy ==
  /\ pc = "pro_exit"
  /\ pc' = "pro_finished"
  /\ UNCHANGED <<config, tools, loc, dirs, walk, stats, files_to_process,
                 file_count, idx, processed, thread_running, backup_tree,
                 last>>

\* lines 584-585: finally
ProFinally ==
  /\ pc = "pro_exit"
  /\ thread_running' = FALSE
  /\ workers' = workers - 1
  /\ pc' = "pro_finished"
  /\ UNCHANGED <<config, fn_state, dup_state, cleanup_state, ren, presses,
                 scans, loc, dirs, walk, stats, files_to_process, file_count,
                 idx, processed, backup_tree, last>>

(***************************************************************************)
(* The simple script: start_organize.                                      *)
(***************************************************************************)
InitSimple ==
  /\ prog = "simple"
  /\ source_dir = "S"
  /\ organize_by \in {"type", "date"}
  /\ dry_run = FALSE
  /\ create_backup \in BOOLEAN
  /\ rescan = TRUE
  /\ dest_path = source_path
  /\ pc = "simple_start"
  /\ InitTree
  /\ NoTools

SimpleTargetDir(f, name) ==
  IF organize_by = "date"
  THEN Append(source_path, DateFolder(mtime[Orig(f)]))
  ELSE Append(source_path, CategoryIn(Simple_categories, Lower(Suffix(name)), 1))

\* lines 85-109: existence check, backup copy, listing of the directory.
\* What copytree or iterdir raise is caught by the handler of line 139
SimpleStart ==
  /\ pc = "simple_start"
  /\ IF ~Exists(source_path)
     THEN /\ pc' = "simple_no_source"
          /\ UNCHANGED <<loc, dirs, walk, backup_tree>>
     ELSE IF ~IsDir(source_path)
     THEN /\ pc' = "simple_error"
          /\ backup_tree' = IF create_backup THEN BackupFailed
                            ELSE backup_tree
          /\ UNCHANGED <<loc, dirs, walk>>
     ELSE IF create_backup
     THEN \/ /\ backup_tree' = Copied
             /\ loc' = CopytreeLoc
             /\ dirs' = CopytreeDirs
             /\ walk' = <<[Frame(source_path) EXCEPT
                             !.phase = "children",
                             !.pending = Entries(source_path)]>>
             /\ pc' = "simple_loop"
          \/ /\ backup_tree' = BackupFailed
             /\ pc' = "simple_error"
             /\ UNCHANGED <<loc, dirs, walk>>
     ELSE /\ walk' = <<[Frame(source_path) EXCEPT
                          !.phase = "children",
                          !.pending = Entries(source_path)]>>
          /\ pc' = "simple_loop"
          /\ UNCHANGED <<loc, dirs, backup_tree>>
  /\ processed' = 0
  /\ UNCHANGED <<config, tools, stats, files_to_process, file_count,
                 idx, thread_running, last>>

\* lines 109-134: one iteration of the for loop; an exception of mkdir or
\* move leaves the loop for the handler of line 139
SimpleVisit ==
  /\ pc = "simple_loop"
  /\ \E n \in Top.pending :
       LET item == Append(Top.dir, n)
           f == FileAt(item)
           target_dir == SimpleTargetDir(f, n)
           target_file == Append(target_dir, n)
           made == dirs \cup {target_dir}
           real_dst == MoveDst(made, item, target_file)
       IN
       /\ walk' = SetTop([Top EXCEPT !.pending = @ \ {n}])
       /\ IF ~IsFile(item)
          THEN UNCHANGED <<pc, loc, dirs, processed, last>>
          ELSE IF ~MkdirOk(target_dir)
          THEN /\ pc' = "simple_error"
               /\ last' = Step(f, item, NoPath, FALSE, "mkdir_raised")
               /\ UNCHANGED <<loc, dirs, processed>>
          ELSE IF MoveOk(made, item, target_file)
          THEN /\ dirs' = made
               /\ loc' = MoveLoc(made, item, target_file)
               /\ processed' = processed + 1
               /\ last' = Step(f, item, real_dst, Exists(real_dst), "moved")
               /\ pc' = pc
          ELSE /\ dirs' = made
               /\ pc' = "simple_error"
               /\ last' = Step(f, item, target_file, FALSE, "failed")
               /\ UNCHANGED <<loc, processed>>
  /\ UNCHANGED <<config, tools, stats, files_to_process, file_count, idx,
                 thread_running, backup_tree>>

\* lines 136-137
SimpleFinish ==
  /\ pc = "simple_loop"
  /\ Top.pending = {}
  /\ pc' = "simple_done"
  /\ walk' = <<>>
  /\ UNCHANGED <<config, tools, loc, dirs, stats, files_to_process, file_count,
                 idx, processed, thread_running, backup_tree, last>>

(***************************************************************************)
(* The specification: one run of one of the three scripts.                 *)
(***************************************************************************)
Init == InitCli \/ InitPro \/ InitSimple

Next ==
  \/ WalkList
  \/ WalkDescend
  \/ WalkEnter
  \/ WalkLeave
  \/ CliCheck
  \/ CliBackup
  \/ CliVisit
  \/ CliFinish
  \/ ProScanDirectory
  \/ ProScanVisit
  \/ ProScanFinish
  \/ ProStartOrganize
  \/ ProPrelude
  \/ ProVisit
  \/ ProLoopEnd
  \/ ProFinally
  \/ SimpleStart
  \/ SimpleVisit
  \/ SimpleFinish

Spec == Init /\ [][Next]_vars

(***************************************************************************)
(* Starting points shared by the specifications of the other operations.   *)
(***************************************************************************)
\* the state of an organize run
organize_state == <<walk, stats, files_to_process, file_count, idx, processed,
                    thread_running, backup_tree>>

\* nothing has run yet on the files l and the directories d
StartOn(l, d) ==
  /\ loc = l
  /\ dirs = d
  /\ loc0 = l
  /\ dirs0 = d
  /\ walk = <<>>
  /\ stats = NoStats
  /\ files_to_process = <<>>
  /\ file_count = 0
  /\ idx = 0
  /\ processed = 0
  /\ thread_running = FALSE
  /\ backup_tree = NoBackup
  /\ last = NoLast

\* a named source directory, type mode, no dry run, no backup
PlainOptions ==
  /\ source_dir = "S"
  /\ organize_by = "type"
  /\ dry_run = FALSE
  /\ create_backup = FALSE
  /\ dest_path = source_path
  /\ mtime = [f \in FileIds |-> 1]
  /\ locked = {}

(***************************************************************************)
(* The pure computations called on their own: get_file_category of the     *)
(* command line and the Pro script, and the size buckets of                *)
(* _organize_thread.                                                       *)
(***************************************************************************)
UpperChar(c) ==
  CASE c = "a" -> "A" [] c = "b" -> "B" [] c = "c" -> "C" [] c = "d" -> "D"
    [] c = "e" -> "E" [] c = "f" -> "F" [] c = "g" -> "G" [] c = "h" -> "H"
    [] c = "i" -> "I" [] c = "j" -> "J" [] c = "k" -> "K" [] c = "l" -> "L"
    [] c = "m" -> "M" [] c = "n" -> "N" [] c = "o" -> "O" [] c = "p" -> "P"
    [] c = "q" -> "Q" [] c = "r" -> "R" [] c = "s" -> "S" [] c = "t" -> "T"
    [] c = "u" -> "U" [] c = "v" -> "V" [] c = "w" -> "W" [] c = "x" -> "X"
    [] c = "y" -> "Y" [] c = "z" -> "Z" [] OTHER -> c
Upper(s) == [i \in 1..Len(s) |-> UpperChar(s[i])]
\* only the first letter after the dot in upper case
Capitalized(s) == [i \in 1..Len(s) |-> IF i = 2 THEN UpperChar(s[i]) ELSE s[i]]

\* the extensions a table lists
Listed(table) ==
  UNION {{table[i].extensions[k] : k \in 1..Len(table[i].extensions)} :
           i \in 1..Len(table)}

\* extensions in no table, the empty extension among them
UnlistedExtensions ==
  {<<>>, <<".", "u">>, <<".", "j", "p", "g", "x">>, <<".", "j", "p">>,
   <<"j", "p", "g">>, <<".", "U", "N", "K">>}

ExtensionInputs ==
  LET L == Listed(FILE_CATEGORIES) \cup Listed(Pro_FILE_CATEGORIES) IN
  L \cup {Upper(e) : e \in L} \cup {Capitalized(e) : e \in L}
    \cup UnlistedExtensions

\* sizes around every threshold, the smallest and a large one
SizeInputs ==
  {0, 1, 2000000000} \cup
  {t + d : t \in {1024 * 1024, 1024 * 1024 * 10, 1024 * 1024 * 100},
           d \in {-1, 0, 1}}

InitFn ==
  /\ prog \in {"cli", "pro"}
  /\ PlainOptions
  /\ rescan = TRUE
  /\ size = [f \in FileIds |-> 10]
  /\ StartOn(AsTree(MissingTree), {NoPath})
  /\ NoTools
  /\ pc = "fn_called"

\* get_file_category(file_extension) / self.get_file_category(extension)
CallGetFileCategory ==
  /\ pc = "fn_called"
  /\ \E e \in ExtensionInputs :
       /\ fn_call' = [fn |-> "get_file_category", arg |-> e]
       /\ fn_ret' = IF prog = "cli" THEN get_file_category(e)
                    ELSE Pro_get_file_category(e)
  /\ pc' = "fn_returned"
  /\ UNCHANGED <<config, organize_state, loc, dirs, last, dup_state,
                 cleanup_state, ren, button_state>>

\* Pro lines 532-540 for a file of s bytes
CallSizeFolder ==
  /\ pc = "fn_called"
  /\ prog = "pro"
  /\ \E s \in SizeInputs :
       /\ fn_call' = [fn |-> "size_folder", arg |-> <<s>>]
       /\ fn_ret' = SizeFolder(s)
  /\ pc' = "fn_returned"
  /\ UNCHANGED <<config, organize_state, loc, dirs, last, dup_state,
                 cleanup_state, ren, button_state>>

NextFn == CallGetFileCategory \/ CallSizeFolder

SpecFn == InitFn /\ [][NextFn]_vars

(***************************************************************************)
(* An organize run while another process removes files of the tree.        *)
(***************************************************************************)
MaxRemoved == 1

\* the files of the start that are gone
Removed == {f \in FileIds : loc0[f] # NoPath /\ loc[f] = NoPath}

InitRace ==
  /\ prog \in {"cli", "pro"}
  /\ source_dir = "S"
  /\ organize_by \in {"type", "date"}
  /\ dry_run = FALSE
  /\ create_backup = FALSE
  /\ rescan = TRUE
  /\ dest_path = source_path
  /\ mtime = [f \in FileIds |-> 1]
  /\ size = [f \in FileIds |-> 10]
  /\ locked = {}
  /\ \E t \in InitialTrees : StartOn(AsTree(t), DirsOf(AsTree(t)))
  /\ NoTools
  /\ pc = IF prog = "cli" THEN "cli_start" ELSE "pro_idle"

\* another process removes a file between two steps of the run
ExternalRemove ==
  /\ pc \in {"cli_walk", "pro_scan", "pro_ready", "pro_prelude", "pro_loop"}
  /\ Cardinality(Removed) < MaxRemoved
  /\ \E f \in FileIds :
       /\ loc[f] # NoPath
       /\ loc' = [loc EXCEPT ![f] = NoPath]
  /\ UNCHANGED <<config, tools, organize_state, dirs, pc, last>>

\* organize_files lines 77-132 for an item that is a regular file at line
\* 78 and that another process removes during the iteration: before the
\* stat calls of lines 86-87, which no handler covers, or after them, where
\* shutil.move raises inside the try of line 123
CliVisitRace ==
  /\ pc = "cli_walk"
  /\ Len(walk) > 0
  /\ Top.phase = "children"
  /\ Cardinality(Removed) < MaxRemoved
  /\ \E n \in Top.pending :
       LET item == Append(Top.dir, n)
           target_dir == CliTargetDir(FileAt(item), n)
           counted == [stats EXCEPT !.total = @ + 1]
           classified ==
             IF organize_by = "date" THEN counted
             ELSE [counted EXCEPT
                     !.categories[get_file_category(Suffix(n))] = @ + 1]
       IN
       /\ IsFile(item)
       /\ FileAt(item) \in FileIds
       /\ ~Hidden(n)
       /\ walk' = SetTop([Top EXCEPT !.pending = @ \ {n}])
       /\ loc' = [loc EXCEPT ![FileAt(item)] = NoPath]
       /\ \/ /\ stats' = counted
             /\ pc' = "cli_raised"
             /\ last' = Step(FileAt(item), item, NoPath, FALSE, "stat_raised")
             /\ UNCHANGED dirs
          \/ /\ MkdirParentsOk(target_dir)
             /\ dirs' = MkdirParents(target_dir)
             /\ stats' = OnMoveError(classified)
             /\ last' = Step(FileAt(item), item, Append(target_dir, n), FALSE,
                             "failed")
             /\ pc' = pc
  /\ UNCHANGED <<config, tools, files_to_process, file_count, idx, processed,
                 thread_running, backup_tree>>

NextRace ==
  \/ WalkList
  \/ WalkDescend
  \/ WalkEnter
  \/ WalkLeave
  \/ CliCheck
  \/ CliBackup
  \/ CliVisit
  \/ CliFinish
  \/ ProScanDirectory
  \/ ProScanVisit
  \/ ProScanFinish
  \/ ProStartOrganize
  \/ ProPrelude
  \/ ProVisit
  \/ ProLoopEnd
  \/ ProFinally
  \/ ExternalRemove
  \/ CliVisitRace

SpecRace == InitRace /\ [][NextRace]_vars

(***************************************************************************)
(* The duplicate search: find_duplicate_files of the command line script,  *)
(* find_duplicates with find_duplicates_by_name_size and                   *)
(* find_duplicates_by_content of the Pro script.                           *)
(***************************************************************************)
A_TXT == <<"a", ".", "t", "x", "t">>

\* the places of the files of a duplicate search
DupSlots == <<
  <<SRC, A_TXT>>, <<SRC, B_U>>,
  <<SRC, SUB, A_TXT>>, <<SRC, SUB, <<"A", ".", "T", "X", "T">>>>,
  <<SRC, TUPIAN, A_TXT>>
>>

DupTrees ==
  {[f \in FileIds |-> DupSlots[s[f]]] :
     s \in {t \in [FileIds -> 1..Len(DupSlots)] :
              \A f, g \in FileIds : f < g => t[f] < t[g]}}
    \cup {MissingTree, FileTree}

\* the contents of the model: the first two have the same length
Contents == 1..3
SizeOfContent == <<10, 10, 20>>

MaxUnreadable == 1

InitDup ==
  /\ prog \in {"cli", "pro"}
  /\ PlainOptions
  /\ rescan = TRUE
  /\ content \in [FileIds -> Contents]
  /\ size = [f \in FileIds |-> SizeOfContent[content[f]]]
  /\ dup_method \in IF prog = "cli" THEN {"name_size"}
                    ELSE {"name_size", "content"}
  /\ unreadable \in IF dup_method = "content"
                    THEN {U \in SUBSET FileIds :
                            Cardinality(U) <= MaxUnreadable}
                    ELSE {{}}
  /\ \E t \in DupTrees : StartOn(AsTree(t), DirsOf(AsTree(t)))
  /\ cleanup_preview = TRUE
  /\ rename_pattern = "counter"
  /\ posix = TRUE
  /\ fn_call = NoCall
  /\ fn_ret = <<>>
  /\ file_dict = <<>>
  /\ duplicates = <<>>
  /\ visited = <<>>
  /\ todo = <<>>
  /\ empty_folders = <<>>
  /\ ren = NoRen
  /\ presses = 0
  /\ workers = 0
  /\ scans = <<>>
  /\ pc = "dup_start"

\* command line lines 153-159; Pro lines 589-605, 623-626 and 640-643
DupStart ==
  /\ pc = "dup_start"
  /\ IF prog = "pro" /\ ~Exists(source_path)
     THEN /\ pc' = "dup_no_source"
          /\ UNCHANGED walk
     ELSE /\ pc' = "dup_walk"
          /\ walk' = <<Frame(source_path)>>
  /\ file_dict' = <<>>
  /\ duplicates' = <<>>
  /\ UNCHANGED <<config, fn_state, cleanup_state, ren, button_state, visited,
                 loc, dirs,
                 stats, files_to_process, file_count, idx, processed,
                 thread_running, backup_tree, last>>

\* variant: the key of the content search is the size of the file
ContentKeyBySize(f) == size[f]

\* calculate_md5(item), lines 658-664
ContentKey(f) == content[f]

\* (item.name.lower(), item.stat().st_size)
NameSizeKey(f, name) == <<Lower(name), size[f]>>

\* duplicates of the Pro script after item joined the group of original:
\* a dictionary from the original to the list of its duplicates, in the
\* order the originals were inserted
AddToGroup(original, item) ==
  IF \E i \in 1..Len(duplicates) : duplicates[i].original = original
  THEN [i \in 1..Len(duplicates) |->
          IF duplicates[i].original = original
          THEN [duplicates[i] EXCEPT !.dups = Append(@, item)]
          ELSE duplicates[i]]
  ELSE Append(duplicates, [original |-> original, dups |-> <<item>>])

\* command line lines 159-165, Pro lines 626-634 and 643-654: one item
DupVisit ==
  /\ pc = "dup_walk"
  /\ Len(walk) > 0
  /\ Top.phase = "children"
  /\ \E n \in Top.pending :
       LET item == Append(Top.dir, n)
           f == FileAt(item)
           key == IF dup_method = "content" THEN ContentKey(f)
                  ELSE NameSizeKey(f, n)
       IN
       /\ walk' = SetTop([Top EXCEPT !.pending = @ \ {n}])
       /\ IF ~IsFile(item)
          THEN UNCHANGED <<file_dict, duplicates, visited, last>>
          ELSE /\ visited' = Append(visited, item)
               /\ IF dup_method = "content" /\ f \in unreadable
                  THEN /\ last' = Step(f, item, NoPath, FALSE, "read_failed")
                       /\ UNCHANGED <<file_dict, duplicates>>
                  ELSE IF key \in DOMAIN file_dict
                  THEN /\ duplicates' =
                            IF prog = "cli"
                            THEN Append(duplicates,
                                        [original |-> file_dict[key],
                                         duplicate |-> item])
                            ELSE AddToGroup(file_dict[key], item)
                       /\ last' = Step(f, item, file_dict[key], FALSE,
                                       "duplicate")
                       /\ UNCHANGED file_dict
                  ELSE /\ file_dict' = file_dict @@ (key :> item)
                       /\ last' = Step(f, item, NoPath, FALSE, "first")
                       /\ UNCHANGED duplicates
  /\ UNCHANGED <<config, fn_state, cleanup_state, ren, button_state, loc,
                 dirs, pc, stats,
                 files_to_process, file_count, idx, processed, thread_running,
                 backup_tree>>

\* command line lines 167-176, Pro lines 607-616 and 636 / 656: the walk is
\* over (a source path that is no directory yields nothing)
DupFinish ==
  /\ pc = "dup_walk"
  /\ \/ WalkExhausted
     \/ Len(walk) > 0 /\ Top.phase = "list" /\ ~IsDir(Top.dir)
  /\ walk' = <<>>
  /\ pc' = "dup_returned"
  /\ UNCHANGED <<config, tools, loc, dirs, stats, files_to_process,
                 file_count, idx, processed, thread_running, backup_tree,
                 last>>

NextDup ==
  \/ WalkList
  \/ WalkDescend
  \/ WalkEnter
  \/ WalkLeave
  \/ DupStart
  \/ DupVisit
  \/ DupFinish

SpecDup == InitDup /\ [][NextDup]_vars

(***************************************************************************)
(* The empty-folder cleanup: cleanup_empty_folders of the command line     *)
(* script, cleanup_empty_folders and _cleanup_thread of the Pro script,    *)
(* cleanup of the simple script.  os.walk(top, topdown=False) lists a      *)
(* directory, walks its subdirectories in the listed order and only then   *)
(* yields the directory with the names it had listed.                      *)
(***************************************************************************)
\* the directories a cleanup can start with, beside those of the files
CleanupDirs ==
  {<<SRC, <<"a">>>>, <<SRC, <<"a">>, <<"b">>>>,
   <<SRC, <<"a">>, <<"b">>, <<"c">>>>, <<SRC, <<"d">>>>}

\* the places of the files of a cleanup
CleanupSlots == <<
  <<SRC, B_U>>, <<SRC, <<"a">>, B_U>>, <<SRC, <<"a">>, <<"b">>, B_U>>,
  <<SRC, <<"d">>, B_U>>
>>

\* up to NFiles files at pairwise distinct places of slots, 0 standing for
\* a file that is absent, and the tree of such a choice
UpToNFiles(slots) ==
  {t \in [FileIds -> 0..Len(slots)] :
     \A f, g \in FileIds : f < g => (t[f] < t[g] \/ t[g] = 0)}

PlacedAt(slots, t) ==
  [f \in AllIds |->
     IF f \in FileIds /\ t[f] > 0 THEN slots[t[f]] ELSE NoPath]

InitCleanup ==
  /\ prog \in {"cli", "pro", "simple"}
  /\ PlainOptions
  /\ rescan = TRUE
  /\ size = [f \in FileIds |-> 10]
  /\ dup_method = "name_size"
  /\ content = [f \in FileIds |-> 1]
  /\ unreadable = {}
  /\ cleanup_preview \in IF prog = "pro" THEN BOOLEAN ELSE {FALSE}
  /\ rename_pattern = "counter"
  /\ posix = TRUE
  /\ \/ \E t \in UpToNFiles(CleanupSlots), D \in SUBSET CleanupDirs :
          StartOn(PlacedAt(CleanupSlots, t),
                  DirsOf(PlacedAt(CleanupSlots, t)) \cup {source_path}
                    \cup UNION {Prefixes(d) : d \in D})
     \/ StartOn(AsTree(MissingTree), {NoPath})
  /\ fn_call = NoCall
  /\ fn_ret = <<>>
  /\ file_dict = <<>>
  /\ duplicates = <<>>
  /\ visited = <<>>
  /\ todo = <<>>
  /\ empty_folders = <<>>
  /\ ren = NoRen
  /\ presses = 0
  /\ workers = 0
  /\ scans = <<>>
  /\ pc = "cleanup_start"

\* the orders in which scandir can return the names S
Orders(S) ==
  {q \in [1..Cardinality(S) -> S] :
     \A i, j \in 1..Cardinality(S) : i # j => q[i] # q[j]}

OsFrame(d) == [dir |-> d, phase |-> "list", order |-> <<>>, rest |-> <<>>]
OsTop == todo[Len(todo)]
SetOsTop(fr) == [todo EXCEPT ![Len(todo)] = fr]

\* command line lines 180-184, Pro lines 668-681, simple lines 144-153
CleanupStart ==
  /\ pc = "cleanup_start"
  /\ IF prog \in {"pro", "simple"} /\ ~Exists(source_path)
     THEN /\ pc' = "cleanup_no_source"
          /\ UNCHANGED todo
     ELSE /\ pc' = "cleanup_walk"
          /\ todo' = <<OsFrame(source_path)>>
  /\ empty_folders' = <<>>
  /\ processed' = 0
  /\ UNCHANGED <<config, fn_state, dup_state, ren, button_state, loc, dirs,
                 walk, stats,
                 files_to_process, file_count, idx, thread_running,
                 backup_tree, last>>

\* os.walk lists the directory of the frame it has just entered; a path
\* that cannot be listed yields nothing
OsWalkList ==
  /\ pc = "cleanup_walk"
  /\ Len(todo) > 0
  /\ OsTop.phase = "list"
  /\ IF IsDir(OsTop.dir)
     THEN \E q \in Orders(SubdirEntries(OsTop.dir)) :
            todo' = SetOsTop([OsTop EXCEPT !.phase = "descend",
                                           !.order = q, !.rest = q])
     ELSE todo' = SetOsTop([OsTop EXCEPT !.phase = "yield"])
  /\ UNCHANGED <<config, fn_state, dup_state, ren, button_state,
                 organize_state, loc, dirs,
                 pc, last, empty_folders>>

\* os.walk walks the next subdirectory
OsWalkEnter ==
  /\ pc = "cleanup_walk"
  /\ Len(todo) > 0
  /\ OsTop.phase = "descend"
  /\ OsTop.rest # <<>>
  /\ todo' = Append(SetOsTop([OsTop EXCEPT !.rest = Tail(@)]),
                    OsFrame(Append(OsTop.dir, Head(OsTop.rest))))
  /\ UNCHANGED <<config, fn_state, dup_state, ren, button_state,
                 organize_state, loc, dirs,
                 pc, last, empty_folders>>

\* os.walk yields (root, dirs, files): the for loop over dirs begins
OsWalkYield ==
  /\ pc = "cleanup_walk"
  /\ Len(todo) > 0
  /\ OsTop.phase = "descend"
  /\ OsTop.rest = <<>>
  /\ todo' = SetOsTop([OsTop EXCEPT !.phase = "yield", !.rest = OsTop.order])
  /\ UNCHANGED <<config, fn_state, dup_state, ren, button_state,
                 organize_state, loc, dirs,
                 pc, last, empty_folders>>

\* not any(dir_path.iterdir())
IsEmptyDir(dir_path) == IsDir(dir_path) /\ Entries(dir_path) = {}

\* command line lines 185-193, Pro lines 682-688, simple lines 154-162:
\* one dir_name of the yielded directory.  The command line and the simple
\* script remove an empty directory at once, the Pro script only notes it
CleanupVisit ==
  /\ pc = "cleanup_walk"
  /\ Len(todo) > 0
  /\ OsTop.phase = "yield"
  /\ OsTop.rest # <<>>
  /\ LET dir_path == Append(OsTop.dir, Head(OsTop.rest)) IN
     /\ todo' = SetOsTop([OsTop EXCEPT !.rest = Tail(@)])
     /\ IF IsEmptyDir(dir_path)
        THEN /\ empty_folders' = IF prog = "simple" THEN empty_folders
                                 ELSE Append(empty_folders, dir_path)
             /\ processed' = IF prog = "simple" THEN processed + 1
                             ELSE processed
             /\ dirs' = IF prog = "pro" THEN dirs ELSE dirs \ {dir_path}
             /\ last' = Step(0, dir_path, NoPath, FALSE,
                             IF prog = "pro" THEN "noted" ELSE "removed")
        ELSE UNCHANGED <<empty_folders, processed, dirs, last>>
  /\ UNCHANGED <<config, fn_state, dup_state, ren, button_state, loc, pc,
                 walk, stats,
                 files_to_process, file_count, idx, thread_running,
                 backup_tree>>

\* variant: the preview option is not looked at
CleanupDeletesAlways == TRUE

\* Pro line 695: if not self.cleanup_preview.get()
CleanupDeletes == ~cleanup_preview

\* the for loop over dirs is over: os.walk goes back to the parent, or is
\* exhausted (command line lines 195-196, simple lines 164-165, Pro lines
\* 690-705)
OsWalkLeave ==
  /\ pc = "cleanup_walk"
  /\ Len(todo) > 0
  /\ OsTop.phase = "yield"
  /\ OsTop.rest = <<>>
  /\ todo' = SubSeq(todo, 1, Len(todo) - 1)
  /\ IF Len(todo) > 1
     THEN UNCHANGED <<pc, idx>>
     ELSE IF prog = "pro" /\ empty_folders # <<>> /\ CleanupDeletes
     THEN pc' = "cleanup_delete" /\ idx' = 1
     ELSE pc' = "cleanup_done" /\ UNCHANGED idx
  /\ UNCHANGED <<config, fn_state, dup_state, ren, button_state, loc, dirs,
                 walk, stats,
                 files_to_process, file_count, processed, thread_running,
                 backup_tree, last, empty_folders>>

\* Pro lines 696-701: Path(folder).rmdir() for one noted folder; rmdir
\* raises on a directory that is not empty
ProCleanupDelete ==
  /\ pc = "cleanup_delete"
  /\ idx <= Len(empty_folders)
  /\ LET folder == empty_folders[idx] IN
     IF IsDir(folder) /\ Entries(folder) = {}
     THEN /\ dirs' = dirs \ {folder}
          /\ last' = Step(0, folder, NoPath, FALSE, "removed")
     ELSE /\ last' = Step(0, folder, NoPath, FALSE, "failed")
          /\ UNCHANGED dirs
  /\ idx' = idx + 1
  /\ UNCHANGED <<config, tools, loc, pc, walk, stats, files_to_process,
                 file_count, processed, thread_running, backup_tree>>

\* Pro line 707
ProCleanupEnd ==
  /\ pc = "cleanup_delete"
  /\ idx > Len(empty_folders)
  /\ pc' = "cleanup_done"
  /\ UNCHANGED <<config, tools, organize_state, loc, dirs, last>>

NextCleanup ==
  \/ CleanupStart
  \/ OsWalkList
  \/ OsWalkEnter
  \/ OsWalkYield
  \/ CleanupVisit
  \/ OsWalkLeave
  \/ ProCleanupDelete
  \/ ProCleanupEnd

SpecCleanup == InitCleanup /\ [][NextCleanup]_vars

(***************************************************************************)
(* The batch rename of the Pro script, batch_rename and _rename_thread,    *)
(* started from the window while the files of a scan are listed, next to   *)
(* an organize worker or alone.                                            *)
(***************************************************************************)
\* line 280: the first number of the counter
start_num == 1

\* format(num, "03d")
RECURSIVE ZeroPad(_, _)
ZeroPad(q, w) == IF Len(q) >= w THEN q ELSE ZeroPad(<<"0">> \o q, w)

\* pattern.format(num=..., name=..., ext=...) for the two templates
\* "file_{num:03d}{ext}", which is the default of line 276, and "new{ext}",
\* which has no counter
Format(pattern, num, name, ext) ==
  IF pattern = "counter"
  THEN <<"f", "i", "l", "e", "_">> \o ZeroPad(ToStr(num), 3) \o ext
  ELSE <<"n", "e", "w">> \o ext

\* the places of the files of a batch rename
RenameSlots == <<
  <<SRC, A_JPG>>, <<SRC, B_U>>,
  <<SRC, <<"f", "i", "l", "e", "_", "0", "0", "2", ".", "j", "p", "g">>>>,
  <<SRC, SUB, A_JPG>>
>>

\* a directory that has the name the counter gives to a second file
RenameDirs == {<<SRC, <<"f", "i", "l", "e", "_", "0", "0", "2", ".", "u">>>>}

InitRename ==
  /\ prog = "pro"
  /\ source_dir = "S"
  /\ organize_by = "type"
  /\ dry_run \in BOOLEAN
  /\ create_backup = FALSE
  /\ dest_path = source_path
  /\ mtime = [f \in FileIds |-> 1]
  /\ locked = {}
  /\ rescan = TRUE
  /\ size = [f \in FileIds |-> 10]
  /\ dup_method = "name_size"
  /\ content = [f \in FileIds |-> 1]
  /\ unreadable = {}
  /\ cleanup_preview = TRUE
  /\ rename_pattern \in {"counter", "fixed"}
  /\ posix \in BOOLEAN
  /\ \E t \in UpToNFiles(RenameSlots), D \in SUBSET RenameDirs :
       StartOn(PlacedAt(RenameSlots, t),
               DirsOf(PlacedAt(RenameSlots, t)) \cup {source_path} \cup D)
  /\ fn_call = NoCall
  /\ fn_ret = <<>>
  /\ file_dict = <<>>
  /\ duplicates = <<>>
  /\ visited = <<>>
  /\ todo = <<>>
  /\ empty_folders = <<>>
  /\ ren = NoRen
  /\ presses = 0
  /\ workers = 0
  /\ scans = <<>>
  /\ pc = "pro_idle"

\* lines 712-719: batch_rename.  It tests the list of the scan and nothing
\* else, and leaves thread_running alone
BatchRename ==
  /\ pc \notin {"pro_idle", "pro_scan", "pro_no_source"}
  /\ ren.state = "idle"
  /\ ren' = IF files_to_process = <<>> THEN [state |-> "warned", i |-> 0]
            ELSE [state |-> "running", i |-> 0]
  /\ UNCHANGED <<config, fn_state, dup_state, cleanup_state, button_state,
                 organize_state,
                 loc, dirs, pc, last>>

\* lines 727-735: the file and the new path of iteration ren.i
RenameOld == files_to_process[ren.i + 1].path
RenameNew ==
  Append(Parent(RenameOld),
         Format(rename_pattern, start_num + ren.i, Stem(Basename(RenameOld)),
                Suffix(Basename(RenameOld))))

\* Path.rename(new): os.rename.  A directory at the new path makes it
\* raise; a regular file there is replaced on POSIX and makes it raise on
\* Windows; renaming a file to its own path changes nothing
RenameOk(old, new) ==
  /\ IsFile(old)
  /\ \/ new = old
     \/ /\ ~IsDir(new)
        /\ posix \/ ~IsFile(new)
RenameTo(old, new) ==
  [f \in AllIds |->
     IF loc[f] = old THEN new
     ELSE IF loc[f] = new THEN NoPath
     ELSE loc[f]]

\* lines 726-747: one iteration of the for loop of _rename_thread
RenameVisit ==
  /\ ren.state = "running"
  /\ ren.i < Len(files_to_process)
  /\ IF dry_run
     THEN /\ last' = Step(0, RenameOld, RenameNew, Exists(RenameNew), "dry")
          /\ UNCHANGED loc
     ELSE IF RenameOk(RenameOld, RenameNew)
     THEN /\ loc' = RenameTo(RenameOld, RenameNew)
          /\ last' = Step(FileAt(RenameOld), RenameOld, RenameNew,
                          Exists(RenameNew), "renamed")
     ELSE /\ last' = Step(0, RenameOld, RenameNew, Exists(RenameNew),
                          "failed")
          /\ UNCHANGED loc
  /\ ren' = [ren EXCEPT !.i = @ + 1]
  /\ UNCHANGED <<config, fn_state, dup_state, cleanup_state, button_state,
                 organize_state,
                 dirs, pc>>

\* lines 749-750: the loop is over
RenameEnd ==
  /\ ren.state = "running"
  /\ ren.i >= Len(files_to_process)
  /\ ren' = [ren EXCEPT !.state = "done"]
  /\ UNCHANGED <<config, fn_state, dup_state, cleanup_state, button_state,
                 organize_state,
                 loc, dirs, pc, last>>

NextRename ==
  \/ WalkList
  \/ WalkDescend
  \/ WalkEnter
  \/ WalkLeave
  \/ ProScanDirectory
  \/ ProScanVisit
  \/ ProScanFinish
  \/ ProStartOrganize
  \/ ProPrelude
  \/ ProVisit
  \/ ProLoopEnd
  \/ ProFinally
  \/ BatchRename
  \/ RenameVisit
  \/ RenameEnd

SpecRename == InitRename /\ [][NextRename]_vars

(***************************************************************************)
(* The organize button of the Pro window, pressed again while a worker     *)
(* runs or after it has ended.  A second run that makes a backup copies to *)
(* the backup path of the model.                                           *)
(***************************************************************************)
MaxPresses == 2

\* the places of the files: a file that takes the name of the category
\* folder of a.jpg's neighbours makes a step fail, a file at the destination
\* path makes the mkdir of the destination fail
ButtonSlots ==
  <<<<SRC, A_JPG>>, <<SRC, SUB, A_JPG>>, <<SRC, QITA>>, <<SRC, YIZHENGLI>>>>

InitButtons ==
  /\ prog = "pro"
  /\ source_dir = "S"
  /\ organize_by = "type"
  /\ dry_run \in BOOLEAN
  /\ create_backup \in BOOLEAN
  /\ rescan = TRUE
  /\ dest_path \in {source_path, <<SRC, YIZHENGLI>>}
  /\ mtime = [f \in FileIds |-> 1]
  /\ size = [f \in FileIds |-> 10]
  /\ locked = {}
  /\ \E t \in UpToNFiles(ButtonSlots) :
       StartOn(PlacedAt(ButtonSlots, t),
               DirsOf(PlacedAt(ButtonSlots, t)) \cup {source_path})
  /\ NoTools
  /\ pc = "pro_idle"

\* lines 490-502: start_organize, for a button event that arrives after the
\* first one
ProStartAgain ==
  /\ pc \in {"pro_prelude", "pro_loop", "pro_exit", "pro_finished"}
  /\ presses < MaxPresses
  /\ presses' = presses + 1
  /\ IF StartRefused
     THEN UNCHANGED <<thread_running, workers, pc>>
     ELSE /\ thread_running' = TRUE
          /\ workers' = workers + 1
          /\ pc' = "pro_prelude"
  /\ UNCHANGED <<config, fn_state, dup_state, cleanup_state, ren, scans, loc,
                 dirs, walk, stats, files_to_process, file_count, idx,
                 processed, backup_tree, last>>

NextButtons ==
  \/ WalkList
  \/ WalkDescend
  \/ WalkEnter
  \/ WalkLeave
  \/ ProScanDirectory
  \/ ProScanVisit
  \/ ProScanFinish
  \/ ProStartOrganize
  \/ ProStartAgain
  \/ ProPrelude
  \/ ProVisit
  \/ ProLoopEnd
  \/ ProFinally

SpecButtons == InitButtons /\ [][NextButtons]_vars

\* a started thread runs: each of its steps is taken when it stays possible
SpecButtonsLive ==
  /\ SpecButtons
  /\ WF_vars(ProPrelude)
  /\ WF_vars(ProVisit)
  /\ WF_vars(ProLoopEnd)
  /\ WF_vars(ProFinally)

(***************************************************************************)
(* organize_files of the command line script run a second time, on the     *)
(* tree the first run has left.                                            *)
(***************************************************************************)
InitTwice ==
  /\ prog = "cli"
  /\ PlainOptions
  /\ rescan \in BOOLEAN
  /\ size = [f \in FileIds |-> 10]
  /\ \E t \in InitialTrees : StartOn(AsTree(t), DirsOf(AsTree(t)))
  /\ NoTools
  /\ pc = "cli_start"

\* main, lines 198-225, started again with the same arguments once the
\* first run has returned: the tree it starts on is the tree as it is now
CliRunAgain ==
  /\ pc = "cli_returned_stats"
  /\ presses = 0
  /\ presses' = 1
  /\ pc' = "cli_start"
  /\ loc0' = loc
  /\ dirs0' = dirs
  /\ stats' = NoStats
  /\ last' = NoLast
  /\ UNCHANGED <<prog, source_dir, organize_by, dry_run, create_backup,
                 rescan, dest_path, mtime, size, locked, dup_method, content,
                 unreadable, cleanup_preview, rename_pattern, posix,
                 fn_state, dup_state, cleanup_state, ren, workers, scans,
                 loc, dirs, walk, files_to_process, file_count, idx,
                 processed, thread_running, backup_tree>>

NextTwice ==
  \/ WalkList
  \/ WalkDescend
  \/ WalkEnter
  \/ WalkLeave
  \/ CliCheck
  \/ CliBackup
  \/ CliVisit
  \/ CliFinish
  \/ CliRunAgain

SpecTwice == InitTwice /\ [][NextTwice]_vars

(***************************************************************************)
(* The scan button of the Pro window pressed while an earlier              *)
(* _scan_directory_thread is still running: every thread walks with its    *)
(* own generator and appends to the list the window holds at that moment.  *)
(***************************************************************************)
MaxScans == 2

InitScan ==
  /\ prog = "pro"
  /\ PlainOptions
  /\ rescan = TRUE
  /\ size = [f \in FileIds |-> 10]
  /\ \E t \in InitialTrees : StartOn(AsTree(t), DirsOf(AsTree(t)))
  /\ NoTools
  /\ pc = "pro_idle"

SetScanWalk(k, w) == [scans EXCEPT ![k].walk = w]

\* lines 361-377: scan_directory
ScanDirectory ==
  /\ pc \in {"pro_idle", "pro_scanning"}
  /\ Len(scans) < MaxScans
  /\ IF ~Exists(source_path)
     THEN /\ pc' = "pro_no_source"
          /\ UNCHANGED <<files_to_process, scans>>
     ELSE /\ files_to_process' = <<>>
          /\ scans' = Append(scans, [walk |-> <<Frame(source_path)>>,
                                     file_count |-> 0, state |-> "running"])
          /\ pc' = "pro_scanning"
  /\ UNCHANGED <<config, fn_state, dup_state, cleanup_state, ren, presses,
                 workers, loc, dirs, walk, stats, file_count, idx, processed,
                 thread_running, backup_tree, last>>

\* line 386: the generator of one thread lists a directory, turns to the
\* subdirectories, enters one or goes back to the parent
ScanWalk ==
  \E k \in 1..Len(scans) :
    LET w == scans[k].walk
        top == w[Len(w)]
    IN
    /\ scans[k].state = "running"
    /\ \/ /\ top.phase = "list"
          /\ IsDir(top.dir)
          /\ scans' = SetScanWalk(k,
               [w EXCEPT ![Len(w)] =
                  [top EXCEPT !.phase = "children",
                              !.pending = Entries(top.dir),
                              !.subs = SubdirEntries(top.dir)]])
       \/ /\ top.phase = "children"
          /\ top.pending = {}
          /\ scans' = SetScanWalk(k,
               [w EXCEPT ![Len(w)] =
                  [top EXCEPT !.phase = "subdirs",
                              !.pending = IF rescan
                                          THEN SubdirEntries(top.dir)
                                          ELSE top.subs]])
       \/ /\ top.phase = "subdirs"
          /\ \E d \in top.pending :
               scans' = SetScanWalk(k,
                 Append([w EXCEPT ![Len(w)] =
                           [top EXCEPT !.pending = @ \ {d}]],
                        Frame(Append(top.dir, d))))
       \/ /\ top.phase = "subdirs"
          /\ top.pending = {}
          /\ Len(w) > 1
          /\ scans' = SetScanWalk(k, SubSeq(w, 1, Len(w) - 1))
    /\ UNCHANGED <<config, fn_state, dup_state, cleanup_state, ren, presses,
                   workers, organize_state, loc, dirs, pc, last>>

\* lines 386-407: one item of the scan of one thread
ScanVisit ==
  \E k \in 1..Len(scans) :
    LET w == scans[k].walk
        top == w[Len(w)]
    IN
    /\ scans[k].state = "running"
    /\ top.phase = "children"
    /\ \E n \in top.pending :
         LET item == Append(top.dir, n)
             rest == [w EXCEPT ![Len(w)] = [top EXCEPT !.pending = @ \ {n}]]
         IN
         IF ~IsFile(item)
         THEN /\ scans' = SetScanWalk(k, rest)
              /\ UNCHANGED files_to_process
         ELSE IF scans[k].file_count >= max_files
         THEN /\ scans' = [scans EXCEPT ![k].state = "done"]
              /\ UNCHANGED files_to_process
         ELSE /\ scans' = [scans EXCEPT ![k].walk = rest,
                                        ![k].file_count = @ + 1]
              /\ files_to_process' =
                   Append(files_to_process,
                          [path |-> item, name |-> n,
                           category |-> Pro_get_file_category(Suffix(n))])
    /\ UNCHANGED <<config, fn_state, dup_state, cleanup_state, ren, presses,
                   workers, loc, dirs, pc, walk, stats, file_count, idx,
                   processed, thread_running, backup_tree, last>>

\* lines 409-418: the scan of one thread ends, by exhaustion or by the
\* exception scandir raises on a source path that is no directory
ScanFinish ==
  \E k \in 1..Len(scans) :
    LET w == scans[k].walk
        top == w[Len(w)]
    IN
    /\ scans[k].state = "running"
    /\ \/ Len(w) = 1 /\ top.phase = "subdirs" /\ top.pending = {}
       \/ top.phase = "list" /\ ~IsDir(top.dir)
    /\ scans' = [scans EXCEPT ![k].state = "done"]
    /\ UNCHANGED <<config, fn_state, dup_state, cleanup_state, ren, presses,
                   workers, organize_state, loc, dirs, pc, last>>

NextScan ==
  \/ ScanDirectory
  \/ ScanWalk
  \/ ScanVisit
  \/ ScanFinish

SpecScan == InitScan /\ [][NextScan]_vars

(***************************************************************************)
(* Properties.                                                             *)
(***************************************************************************)
FilesAt(l) == {f \in FileIds : l[f] # NoPath}
\* the regular files in the tree of the source directory
FilesInTree(l) == {f \in AllIds : UnderSource(l[f])}
Name0(f) == Basename(loc0[f])

\* the folder the running script sends file f to
TargetDirOf(f) ==
  IF prog = "cli" THEN CliTargetDir(f, Name0(f))
  ELSE IF organize_by = "date" THEN Append(dest_path, DateFolder(mtime[f]))
  ELSE IF organize_by = "size" THEN Append(dest_path, SizeFolder(size[f]))
  ELSE Append(dest_path, Pro_get_file_category(Suffix(Name0(f))))

\* the run went through all its files and ended normally
RunCompleted ==
  \/ prog = "cli" /\ pc = "cli_returned_stats"
  \/ prog = "pro" /\ pc = "pro_finished" /\ idx > Len(files_to_process)

\* C1: in a non-dry-run organize of the command line and the Pro script,
\* the path a file is moved to did not exist when the move was made, and no
\* file of the tree was replaced by a move.
C1_MoveNeverOverwrites ==
  prog \in {"cli", "pro"} =>
    /\ last.outcome = "moved" => ~last.dstExisted
    /\ \A f \in FilesAt(loc0) : loc[f] # NoPath

C1_Witness ==
  /\ prog = "pro"
  /\ ~dry_run
  /\ last.outcome = "moved"
  /\ Basename(last.dst) # Basename(last.src)

\* C2 (as claimed): when a non-dry-run organize_files has returned its
\* statistics, every file of the start is still there, at one path of its
\* own, which is its original path or a path in its target folder with its
\* extension kept, and the number of regular files in the tree of the
\* source directory is the number of the start.
C2_NoFileLost ==
  (prog = "cli" /\ ~dry_run /\ pc = "cli_returned_stats") =>
    /\ \A f \in FilesAt(loc0) :
         /\ loc[f] # NoPath
         /\ \/ loc[f] = loc0[f]
            \/ /\ Parent(loc[f]) = TargetDirOf(f)
               /\ Suffix(Basename(loc[f])) = Suffix(Name0(f))
    /\ \A f, g \in FilesAt(loc) : f # g => loc[f] # loc[g]
    /\ Cardinality(FilesInTree(loc)) = Cardinality(FilesInTree(loc0))

\* C3 (as claimed): when organize_files returns its statistics, total equals
\* moved plus skipped.
C3_TotalIsMovedPlusSkipped ==
  (prog = "cli" /\ pc = "cli_returned_stats") =>
    stats.total = stats.moved + stats.skipped

\* C4 (as claimed): type mode, no dry run, no backup, all files directly in
\* the source directory, none hidden, every move possible: the run ends
\* with every file at source/category/name and total = moved = n,
\* skipped = 0.
C4_EndToEndTypeMode ==
  ( /\ prog = "cli"
    /\ organize_by = "type"
    /\ ~dry_run
    /\ ~create_backup
    /\ locked = {}
    /\ \A f \in FileIds : Parent(loc0[f]) = source_path /\ ~Hidden(Name0(f))
    /\ pc = "cli_returned_stats" )
  =>
    /\ \A f \in FileIds :
         loc[f] = <<SRC, get_file_category(Suffix(Name0(f))), Name0(f)>>
    /\ stats.total = NFiles
    /\ stats.moved = NFiles
    /\ stats.skipped = 0

\* C5: after a completed non-dry-run organize, files that had the same name
\* and the same target folder, that the script processes (the command line
\* script passes over hidden files) and that the system let move, all
\* exist, at pairwise distinct paths of that folder.
C5_SameNameDistinctPaths ==
  (prog \in {"cli", "pro"} /\ ~dry_run /\ RunCompleted) =>
    \A f, g \in FilesAt(loc0) \ locked :
      ( /\ f # g /\ Name0(f) = Name0(g) /\ TargetDirOf(f) = TargetDirOf(g)
        /\ prog = "cli" => ~Hidden(Name0(f)) ) =>
        /\ loc[f] # NoPath
        /\ loc[g] # NoPath
        /\ loc[f] # loc[g]
        /\ Parent(loc[f]) = TargetDirOf(f)
        /\ Parent(loc[g]) = TargetDirOf(f)

C5_Witness ==
  /\ ~dry_run
  /\ RunCompleted
  /\ \E f, g, h \in FilesAt(loc0) \ locked :
       /\ f # g /\ g # h /\ f # h
       /\ Name0(f) = Name0(g) /\ Name0(g) = Name0(h)
       /\ TargetDirOf(f) = TargetDirOf(g) /\ TargetDirOf(g) = TargetDirOf(h)
       /\ Cardinality({loc[f], loc[g], loc[h]}) = 3

\* the stem without one trailing "_<digits>" part, read off the last "_"
ExpectedBase(stem) ==
  LET j == RFind(stem, "_") IN
  IF j > 0 /\ IsDigit(SubSeq(stem, j + 1, Len(stem)))
  THEN SubSeq(stem, 1, j - 1) ELSE stem

Underscores(s) == Cardinality({i \in 1..Len(s) : s[i] = "_"})
MaxProbe == 2 * NFiles + 1

\* C6: when the desired path exists, the resolver returns base_k.ext in the
\* target folder for the smallest k >= 1 whose path is free, base being the
\* stem without one trailing "_<digits>" part; a stem that ends in
\* "_<digits>" gets no further "_" part.
C6_SmallestFreeSuffix ==
  [][ ( /\ last'.n = last.n + 1
        /\ prog \in {"cli", "pro"}
        /\ \/ last'.outcome \in {"moved", "failed"}
           \/ last'.outcome = "dry" /\ prog = "cli"
        /\ Exists(Append(Parent(last'.dst), Basename(last'.src))) )
      =>
      LET name == Basename(last'.src)
          dir == Parent(last'.dst)
          Probe(k) == Append(dir, ExpectedBase(Stem(name)) \o <<"_">>
                                    \o ToStr(k) \o Suffix(name))
      IN /\ \E k \in 1..MaxProbe :
              /\ last'.dst = Probe(k)
              /\ \A j \in 1..(k - 1) : Exists(Probe(j))
         /\ ~Exists(last'.dst)
         /\ ExpectedBase(Stem(name)) # Stem(name) =>
              Underscores(Basename(last'.dst)) = Underscores(name)
    ]_vars

C6_Witness ==
  /\ last.outcome = "moved"
  /\ Basename(last.src) = A_1_JPG
  /\ Basename(last.dst) = <<"a", "_", "2", ".", "j", "p", "g">>

\* C7: a dry run of the command line or the Pro script changes nothing in
\* the file system: no directory is created, no backup copy made, no file
\* moved.
C7_DryRunNoMutation ==
  dry_run => loc = loc0 /\ dirs = dirs0 /\ backup_tree = NoBackup

C7_Witness ==
  /\ dry_run
  /\ create_backup
  /\ last.outcome = "dry"
  /\ pc \in {"cli_returned_stats", "pro_finished"}
  /\ \E f \in FileIds : TargetDirOf(f) \notin dirs

\* C8: with the backup enabled in a non-dry run, a file has moved only
\* after the backup copy of the tree of the start was completed, and a
\* failed backup copy ends the run with every file where it was.
C8_BackupBeforeMove ==
  (create_backup /\ ~dry_run) =>
    /\ loc # loc0 =>
         backup_tree = [state |-> "copied",
                        files |-> {loc0[f] : f \in FilesAt(loc0)}]
    /\ backup_tree.state = "failed" =>
         /\ loc = loc0
         /\ pc \in {"cli_raised", "pro_exit", "pro_finished", "simple_error"}

C8_Witness ==
  /\ create_backup
  /\ ~dry_run
  /\ backup_tree.state = "copied"
  /\ loc # loc0

\* C9: organize_files on a source path that is missing or is no directory
\* returns without statistics and makes no backup copy, no directory and
\* no move.
C9_FailFastWithoutSource ==
  (prog = "cli" /\ source_path \notin dirs0) =>
    /\ pc \in {"cli_start", "cli_returned_none"}
    /\ loc = loc0
    /\ dirs = dirs0
    /\ backup_tree = NoBackup
    /\ stats = NoStats

C9_Witness ==
  /\ prog = "cli"
  /\ pc = "cli_returned_none"
  /\ loc0 = AsTree(FileTree)
  /\ create_backup
  /\ ~dry_run

\* C10: a move that fails leaves every file where it was, adds one to
\* skipped and nothing to moved (command line script; the Pro script leaves
\* processed as it is), and the loop goes on with the next file.
C10_FailedMoveIsIsolated ==
  [][ ( /\ last'.n = last.n + 1
        /\ last'.outcome = "failed"
        /\ prog \in {"cli", "pro"} )
      =>
      /\ loc' = loc
      /\ pc' = pc
      /\ prog = "cli" =>
           /\ pc = "cli_walk"
           /\ stats'.skipped = stats.skipped + 1
           /\ stats'.moved = stats.moved
           /\ Len(walk') = Len(walk)
           /\ \E n \in Top.pending :
                walk'[Len(walk')].pending = Top.pending \ {n}
      /\ prog = "pro" =>
           /\ pc = "pro_loop"
           /\ processed' = processed
           /\ idx' = idx + 1
    ]_vars

C10_Witness ==
  /\ prog = "cli"
  /\ stats.skipped > 0
  /\ last.outcome = "moved"
  /\ pc = "cli_returned_stats"

\* C12 (as claimed): no organize run of the command line script or of the
\* Pro script moves or renames a file whose name starts with "." or "~":
\* such a file stays at its original path.
C12_HiddenFilesStay ==
  prog \in {"cli", "pro"} =>
    \A f \in FilesAt(loc0) : Hidden(Name0(f)) => loc[f] = loc0[f]

\* C20 (as claimed): when the simple organizer moves a top-level file whose
\* name is taken in its target folder, the file that was there is still
\* there after the run and the incoming file is stored under another name.
C20_SimpleNeverOverwrites ==
  (prog = "simple" /\ pc = "simple_done") =>
    \A f, g \in FilesAt(loc0) :
      ( /\ Parent(loc0[f]) = source_path
        /\ loc0[g] = Append(SimpleTargetDir(f, Name0(f)), Name0(f)) ) =>
        /\ loc[g] = loc0[g]
        /\ loc[f] # NoPath
        /\ loc[f] # loc0[g]

\* the entries of a table that list the extension e
Listing(table, e) ==
  {i \in 1..Len(table) :
     \E k \in 1..Len(table[i].extensions) : table[i].extensions[k] = e}

\* C13: a size below 1,048,576 gets the smallest bucket, a size from
\* 1,048,576 below 10,485,760 gets 1MB-10MB, a size from 10,485,760 below
\* 104,857,600 gets 10MB-100MB, every other size the largest bucket: each
\* threshold belongs to the bucket above it.
C13_SizeBuckets ==
  (pc = "fn_returned" /\ fn_call.fn = "size_folder") =>
    LET s == fn_call.arg[1] IN
    /\ fn_ret = XIAOYU_1MB <=> s < 1048576
    /\ fn_ret = MB1_10 <=> (1048576 <= s /\ s < 10485760)
    /\ fn_ret = MB10_100 <=> (10485760 <= s /\ s < 104857600)
    /\ fn_ret = DAYU_100MB <=> 104857600 <= s

C13_Witness ==
  /\ pc = "fn_returned"
  /\ fn_call = [fn |-> "size_folder", arg |-> <<1048576>>]
  /\ fn_ret = MB1_10

\* C14: get_file_category returns the category of the one entry of the
\* script's table that lists the lower-cased extension, and the fallback
\* category when no entry lists it; no extension is listed by two entries.
C14_CategoryByLowerExtension ==
  (pc = "fn_returned" /\ fn_call.fn = "get_file_category") =>
    LET table == IF prog = "cli" THEN FILE_CATEGORIES ELSE Pro_FILE_CATEGORIES
        L == Listing(table, Lower(fn_call.arg))
    IN /\ Cardinality(L) <= 1
       /\ \A i \in L : fn_ret = table[i].category
       /\ L = {} => fn_ret = QITA
       /\ \A i \in L : table[i].category # QITA

C14_Witness ==
  /\ pc = "fn_returned"
  /\ prog = "cli"
  /\ fn_call = [fn |-> "get_file_category", arg |-> <<".", "J", "p", "g">>]
  /\ fn_ret = TUPIAN

\* C11 (as claimed): when the file of a step of organize_files or
\* _organize_thread has been removed by another process before its stat or
\* its move, the step is a failure of that file alone: the run goes on
\* where it was, and the command line script counts the file as skipped.
C11_VanishedFileIsIsolated ==
  [][ ( /\ last'.n = last.n + 1
        /\ prog \in {"cli", "pro"}
        /\ last'.outcome \in {"stat_raised", "failed"}
        /\ \A f \in AllIds : loc'[f] # last'.src )
      =>
      /\ pc' = pc
      /\ prog = "cli" => stats'.skipped = stats.skipped + 1
    ]_vars

\* the files below the source directory, and those among them that share
\* the name+size key of file f
TreeFiles == {f \in FileIds : Len(loc[f]) >= 2 /\ UnderSource(loc[f])}
SameKey(f) ==
  {g \in TreeFiles :
     NameSizeKey(g, Basename(loc[g])) = NameSizeKey(f, Basename(loc[f]))}
\* the paths of the files F in the order the search met them
InVisitOrder(F) ==
  SelectSeq(visited, LAMBDA p : p \in {loc[g] : g \in F})
\* the members of an entry of duplicates, the original left out
Members(entry) ==
  IF prog = "cli" THEN <<entry.duplicate>> ELSE entry.dups
Range(q) == {q[i] : i \in 1..Len(q)}

\* C15 (as claimed): after a name+size search, every key shared by two or
\* more files has exactly one group in the result: its original is the
\* first file of the key in walk order, its members are the other files of
\* the key in the order they were met.
C15_OneGroupPerKey ==
  (pc = "dup_returned" /\ dup_method = "name_size") =>
    \A f \in TreeFiles :
      Cardinality(SameKey(f)) >= 2 =>
        LET order == InVisitOrder(SameKey(f))
            G == {i \in 1..Len(duplicates) :
                    duplicates[i].original \in Range(order)}
        IN /\ Cardinality(G) = 1
           /\ \A i \in G : /\ duplicates[i].original = Head(order)
                           /\ Members(duplicates[i]) = Tail(order)

\* two files are in one group of the result
Grouped(f, g) ==
  \E i \in 1..Len(duplicates) :
    {loc[f], loc[g]} \subseteq
      {duplicates[i].original} \cup Range(Members(duplicates[i]))
InSomeGroup(f) ==
  \E i \in 1..Len(duplicates) :
    loc[f] \in {duplicates[i].original} \cup Range(Members(duplicates[i]))

\* C16: after a content search, two readable files are in one group exactly
\* when their digests are equal, whatever their names and sizes; a file
\* that cannot be read is in no group, and every file of the tree was
\* visited.
C16_GroupedIffSameDigest ==
  (pc = "dup_returned" /\ dup_method = "content") =>
    /\ \A f, g \in TreeFiles \ unreadable :
         f # g => (Grouped(f, g) <=> content[f] = content[g])
    /\ \A f \in TreeFiles \cap unreadable : ~InSomeGroup(f)
    /\ Range(visited) = {loc[f] : f \in TreeFiles}

C16_Witness ==
  /\ pc = "dup_returned"
  /\ dup_method = "content"
  /\ \E f, g, h \in TreeFiles \ unreadable :
       /\ f # g
       /\ Grouped(f, g)
       /\ Basename(loc[f]) # Basename(loc[g])
       /\ size[h] = size[f]
       /\ content[h] # content[f]
       /\ ~InSomeGroup(h)

\* the directories below the source directory that held no regular file
\* anywhere beneath them when the cleanup started
FileFree0 ==
  {d \in dirs0 :
     /\ Len(d) >= 2
     /\ UnderSource(d)
     /\ \A f \in FileIds : d \notin Prefixes(loc0[f])}

\* C17 (as claimed): after a deleting cleanup, every directory below the
\* source directory that held no regular file anywhere beneath it is
\* removed, also one that became empty only by the removal of its empty
\* children, in the three scripts.
C17_CascadingPrune ==
  (pc = "cleanup_done" /\ ~cleanup_preview) =>
    \A d \in FileFree0 : d \notin dirs

\* C18 (as claimed): in a batch rename that is no dry run, a rename whose
\* new path is taken by another file or directory replaces nothing: no file
\* changes its place, the step is reported as failed and the loop goes on
\* with the next file.
C18_RenameNeverDestroys ==
  [][ ( /\ RenameVisit
        /\ ~dry_run
        /\ RenameNew # RenameOld
        /\ Exists(RenameNew) ) =>
      ( /\ loc' = loc
        /\ last'.outcome = "failed"
        /\ ren'.state = "running"
        /\ ren'.i = ren.i + 1 ) ]_vars

\* C19 (as claimed): in the Pro window a rename worker never runs while the
\* organize worker runs.
C19_OneMutatingWorker == ~(thread_running /\ ren.state = "running")

\* C26: a cleanup never moves or deletes a regular file, and every
\* directory it removes is empty when it is removed, is not the source
\* directory, and is removed only when the preview option is off.
C26_CleanupRemovesOnlyEmpty ==
  [][ /\ loc' = loc
      /\ dirs' # dirs =>
           \E d \in dirs :
             /\ dirs' = dirs \ {d}
             /\ Entries(d) = {}
             /\ d # source_path
             /\ ~cleanup_preview ]_vars

\* a deleting cleanup has removed a directory of a tree that holds a file
\* in another directory below the source directory
C26_Witness ==
  /\ pc = "cleanup_done"
  /\ dirs # dirs0
  /\ \E f \in FileIds : Len(loc[f]) >= 3 /\ UnderSource(loc[f])

\* C22: at most one _organize_thread is alive at any time, and a press of
\* the organize button while thread_running is set starts no worker and
\* changes nothing but the count of the events handled.
C22_OneOrganizeWorker ==
  [][ /\ workers' <= 1
      /\ (ProStartAgain /\ thread_running) =>
           UNCHANGED <<config, fn_state, dup_state, cleanup_state, ren,
                       workers, scans, organize_state, loc, dirs, pc,
                       last>> ]_vars

\* the button has been pressed while the worker was in its loop, and the
\* worker is still the only one
C22_Witness ==
  /\ presses >= 1
  /\ pc = "pro_loop"
  /\ idx >= 2
  /\ thread_running
  /\ workers = 1

\* C23: a started _organize_thread always comes to set thread_running back
\* to false, also after a failed step, a failed backup or a failed mkdir.
C23_BusyGuardReleased == thread_running ~> ~thread_running

\* a worker has ended after its backup failed and the next press of the
\* button has started another worker
C23_Witness ==
  /\ presses >= 1
  /\ backup_tree = BackupFailed
  /\ thread_running
  /\ pc = "pro_prelude"

\* C24 (as claimed): in one run of organize_files without backup, every
\* move takes a file from the place it had when the run started, so no file
\* is moved twice, and the run returns as total the number of regular files
\* the tree held when it started.
C24_EachFileOnce ==
  [][ (prog = "cli" /\ ~create_backup) =>
        /\ (last'.n # last.n /\ last'.outcome = "moved") =>
             last'.src = loc0[last'.file]
        /\ pc' = "cli_returned_stats" =>
             stats'.total = Cardinality(FilesInTree(loc0)) ]_vars

\* C21 (as claimed): a second run of organize_files (type mode, no dry run,
\* no backup) on the tree a first run has left ends with every file at the
\* place where the second run found it.
C21_SecondRunChangesNothing ==
  (presses = 1 /\ pc = "cli_returned_stats") => loc = loc0

\* C25 (as claimed): once every scan thread has ended, no path occurs twice
\* in files_to_process, also when the scan button was pressed again while
\* an earlier scan thread was running.
C25_PathsUnique ==
  (scans # <<>> /\ \A k \in 1..Len(scans) : scans[k].state = "done") =>
    \A i, j \in 1..Len(files_to_process) :
      i # j => files_to_process[i].path # files_to_process[j].path

====
